---- MODULE Spec2Model ----
(***************************************************************************)
(* Model of the patent download engine (main process of the Electron app). *)
(*                                                                         *)
(*   Spec       one download request: downloadAllPages (EPO pages) or a    *)
(*              file-wrapper download (ZIP or merged) through the          *)
(*              'download-file-wrapper-documents' handler                  *)
(*   SpecToken  'download-patent' invocations sharing the token cache      *)
(*   SpecFetch  one HTTP fetch (page, document, document list or file);    *)
(*              SpecFetchLive adds the fairness of timers and answers      *)
(*   SpecRenderer  the publication list of the renderer                    *)
(*   SpecPatent    one 'download-patent' call and the requests it sends    *)
(*   SpecNames     the archive entry name of one document                  *)
(*   SpecParse     parseDocumentInstances on one document-index answer     *)
(*   SpecScratch   downloadAllPages runs and their temp directories        *)
(*   SpecAppNumber the application number sent to the USPTO list request   *)
(*   SpecCredentials  the token cache and the stored Espacenet keys        *)
(*   SpecDownloadView the download view: add, clear, remove, download      *)
(*   SpecFileWrapperView  the file-wrapper view: select and download       *)
(*   SpecHandlers  the checks of the three IPC handlers                    *)
(*   SpecLoop      the batch loop of downloadAllPages, any page count      *)
(***************************************************************************)
EXTENDS Integers, Sequences, FiniteSets, TLC

(* ------------------------------ bounds -------------------------------- *)
\* largest page count the locator reports in the model
MaxPages == 9
\* longest document list submitted to a file-wrapper download
MaxDocs == 6
\* token-endpoint requests the model lets the callers issue
MaxTokenRequests == 3
\* how far the clock runs, in ticks
MaxClockTicks == 3
\* requests one list fetch sends to the original URL (the first and the retries)
MaxAttempts == 3
\* redirects of one fetch the model counts
MaxHops == 3
\* longest publicationsList the renderer model builds
MaxList == 2
\* longest document code / identifier an archive entry is named for
MaxNameLen == 2
\* milliseconds that pass while two downloadAllPages runs are watched
MaxMillis == 3
\* longest application number typed into the file-wrapper view
MaxAppLen == 9
\* downloadPublications runs the model lets the user start
MaxRuns == 2
\* most documents in one file-wrapper listing
MaxListed == 2
\* IPC handler invocations the model makes in a row
MaxCalls == 3
\* most document-instance tags in one document-index response
MaxTags == 3

(* ------------------------- program constants -------------------------- *)
\* Math.min(numberOfPages, 8)
PAGE_CONCURRENCY_LIMIT == 8
\* const maxConcurrency = 5
maxConcurrency == 5

VARIABLES
    mode,             \* "pages" | "zip" | "merged": which download runs
    numberOfPages,    \* downloadAllPages: page count of the selected instance
    documents,        \* file wrapper: the submitted document list
    pc,               \* position of the request: start, fetching, assemble, done
    i,                \* the batch loop's index (0-based, as in the code)
    task,             \* task[t]: state of the t-th fetch promise (1-based)
    downloadResults,  \* downloadAllPages: results pushed after each batch
    zip,              \* ZIP mode: entries of the JSZip object
    downloadedPdfs,   \* merged mode: new Array(documents.length)
    completed,        \* file wrapper: progress counter
    tempDir,          \* downloadAllPages: the scratch directory exists
    output,           \* the destination file: written?, content
    result,           \* what the IPC handler returns to the caller
    fault,            \* file-system and parse faults met by the request
    skippedInMerge,   \* the payloads the merge loop could not add and skipped
    settledOutOfOrder, \* a task settled while an earlier task of its batch ran
    reporter,         \* file wrapper: `event`: "none" (null), "live", "destroyed"
    progress          \* the 'file-wrapper-progress' events sent so far

VARIABLES
    globalAccessToken, \* the cached token (0: null)
    globalTokenExpiry, \* its expiry, minutes on the clock (0: null)
    clock,             \* new Date().getTime(), in minutes
    call,              \* call[c]: one 'download-patent' invocation per caller
    tokenRequests,     \* token-endpoint requests issued so far
    tokenStartedAt,    \* the clock when each of these requests began
    lastTokenCall,     \* the last finished getEPOAccessTokenWithCache call
    overlapSeen        \* two getEPOAccessTokenWithCache calls have overlapped

VARIABLES
    fetchKind,         \* "page" | "document" | "list": which fetch function
    fetchState,        \* request, redirect, retryWait, resolved, rejected
    attempts,          \* requests issued to the original URL
    timerArmed,        \* the req.setTimeout timer of the open request is pending
    staleTimer,        \* so is the timer of an earlier request of this fetch,
                       \* whose answered socket is still open and idle
    serverSilent,      \* the server will never answer the open request
    rejectedOn,        \* the HTTP status that rejected the fetch (0: none)
    redirectSentKey,   \* the redirected request carried X-API-KEY
    responses,         \* the status codes received last (at most MaxAttempts)
    hops               \* redirects followed so far (counted up to MaxHops)

VARIABLES
    publicationInput,       \* the publication text field's value
    publicationsList,       \* the renderer's list of publication numbers
    downloadButtonDisabled, \* downloadButton.disabled
    lastAdd,                \* what the last addPublication call did
    publicationItems,       \* the '.publication-item' elements shown, in order
    publicationsCount       \* the number shown in 'publications-count'

VARIABLES
    namedDocument,     \* the document (and its index) an archive entry is named for
    entryName          \* the entry name derived for it

VARIABLES
    publicationNumber, \* options.publicationNumber of one 'download-patent' call
    downloadType,      \* options.downloadType: "frontpage" | "full"
    patentPc,          \* position of that call: invoked, token, index, download, done
    requests,          \* the network requests the call has issued, in order
    patentResult       \* what the handler returns

VARIABLES
    xmlData,           \* the document-instance tags of a document-index response
    documentInfo       \* what parseDocumentInstances makes of them

VARIABLES
    applicationNumber, \* what the renderer passes to 'fetch-file-wrapper-documents'
    listRequest        \* the document-list request the handler sends

VARIABLES
    apiKeys,           \* the Espacenet key/secret pair in the configuration file
    tokenCall,         \* the getEPOAccessTokenWithCache call in progress
    issuedFor,         \* the credentials each token request was sent with
    handedOut          \* the last token returned, and the credentials passed

VARIABLES
    runs,              \* the downloadPublications runs in progress: their loop index
    runsStarted,       \* how many runs were started
    progressItems,     \* the publications with an element in the progress list
    requested          \* the publication numbers passed to downloadPatent

VARIABLES
    dateNow,           \* Date.now(), in milliseconds
    run,               \* each downloadAllPages run: where it is, its tempDir
    scratch            \* the page files on disk: directory, page, writer

dlVars == <<mode, numberOfPages, documents, pc, i, task, downloadResults,
            zip, downloadedPdfs, completed, tempDir, output, result,
            fault, skippedInMerge, settledOutOfOrder, reporter, progress>>

tokVars == <<globalAccessToken, globalTokenExpiry, clock, call, tokenRequests,
             tokenStartedAt, lastTokenCall, overlapSeen>>

fetchVars == <<fetchKind, fetchState, attempts, timerArmed, staleTimer, serverSilent,
               rejectedOn, redirectSentKey, responses, hops>>

uiVars == <<publicationInput, publicationsList, downloadButtonDisabled, lastAdd,
            publicationItems, publicationsCount>>

nameVars == <<namedDocument, entryName>>

patVars == <<publicationNumber, downloadType, patentPc, requests, patentResult>>

parseVars == <<xmlData, documentInfo>>

\* two overlapping downloadAllPages runs and their scratch directories
scratchVars == <<dateNow, run, scratch>>

\* the application number of a 'fetch-file-wrapper-documents' call
appVars == <<applicationNumber, listRequest>>

\* the stored Espacenet credentials and the tokens obtained with them
credVars == <<apiKeys, tokenCall, issuedFor, handedOut>>

\* the downloadPublications runs of the renderer
viewVars == <<runs, runsStarted, requested, progressItems>>

VARIABLES
    documentsData,     \* the documents of the last successful fetch
    checkboxes,        \* the .document-checkbox elements: disabled, checked
    wrapperRequest     \* the last call of downloadFileWrapperDocuments

\* the file-wrapper view of the renderer
wrapVars == <<documentsData, checkboxes, wrapperRequest>>

VARIABLES
    storedConfig,      \* what the two configuration files hold
    ipc,               \* the IPC handler invocation being served
    callsMade,         \* how many invocations were made
    network,           \* the network requests issued by the handlers
    ipcResult          \* what the last invocation returned

\* the IPC handlers and their preconditions
hdlVars == <<storedConfig, ipc, callsMade, network, ipcResult>>

VARIABLES
    pagesText,         \* the number-of-pages attribute of the selected instance
    loopPc,            \* where downloadAllPages is: start, loop, done
    loopIndex,         \* i of the batch loop, a JavaScript number
    tasksCreated,      \* downloadPage calls made so far
    pagesFetched,      \* how many of them succeeded
    loopOutcome        \* how downloadAllPages ended, and whether filePath was written

\* the batch loop of downloadAllPages over JavaScript numbers
loopVars == <<pagesText, loopPc, loopIndex, tasksCreated, pagesFetched, loopOutcome>>

otherVars == <<scratchVars, appVars, credVars, viewVars, wrapVars, hdlVars, loopVars>>

vars == <<dlVars, tokVars, fetchVars, uiVars, nameVars, patVars, parseVars, otherVars>>

Min(a, b) == IF a < b THEN a ELSE b

(* ----------------------------- documents ------------------------------ *)
\* Strings that the code inspects character by character are sequences of
\* one-character strings.
MergedDoc == [documentCode |-> <<"A">>, documentIdentifier |-> <<"1">>]

DocPool ==
    { [documentCode |-> <<"A">>, documentIdentifier |-> <<"1">>],
      [documentCode |-> <<"A">>, documentIdentifier |-> <<>>] }

RECURSIVE SeqsUpTo(_, _)
SeqsUpTo(S, n) ==
    IF n = 0 THEN { <<>> }
    ELSE LET shorter == SeqsUpTo(S, n - 1)
         IN  shorter \cup { Append(s, x) : s \in { q \in shorter : Len(q) = n - 1 }, x \in S }

\* String(docIndex) for the small indexes of the model
RECURSIVE DecimalDigits(_)
DecimalDigits(n) ==
    LET d == <<"0", "1", "2", "3", "4", "5", "6", "7", "8", "9">>
    IN  IF n < 10 THEN << d[n + 1] >>
        ELSE Append(DecimalDigits(n \div 10), d[(n % 10) + 1])

\* the characters fileName.replace(/[<>:"/\\|?*]/g, '_') replaces
UnsafeFileNameChars == { "<", ">", ":", "\"", "/", "\\", "|", "?", "*" }

\* `${doc.documentCode || 'doc'}-${doc.documentIdentifier || docIndex}.pdf`
FileNameOf(doc, docIndex) ==
    (IF doc.documentCode = <<>> THEN <<"d", "o", "c">> ELSE doc.documentCode)
    \o <<"-">>
    \o (IF doc.documentIdentifier = <<>> THEN DecimalDigits(docIndex)
        ELSE doc.documentIdentifier)
    \o <<".", "p", "d", "f">>

SafeFileName(fileName) ==
    [k \in 1..Len(fileName) |->
        IF fileName[k] \in UnsafeFileNameChars THEN "_" ELSE fileName[k]]

(* ---------------------------- the scheduler --------------------------- *)
\* number of fetch tasks of the request
N == IF mode = "pages" THEN numberOfPages ELSE Len(documents)

\* const MAX_CONCURRENT_DOWNLOADS = Math.min(numberOfPages, 8)
MAX_CONCURRENT_DOWNLOADS == Min(numberOfPages, PAGE_CONCURRENCY_LIMIT)

\* the step of the batch loop
Ceiling == IF mode = "pages" THEN MAX_CONCURRENT_DOWNLOADS ELSE maxConcurrency

\* a batch that takes one task too many (i + limit + 1)
BatchEndOneTooMany(i0) == Min(i0 + Ceiling + 1, N)

\* pages: Math.min(i + MAX_CONCURRENT_DOWNLOADS, numberOfPages);
\* file wrapper: the end of documents.slice(i, i + maxConcurrency)
BatchEnd(i0) == Min(i0 + Ceiling, N)

\* the tasks (1-based positions) created for the batch that starts at i0
BatchTasks(i0) == (i0 + 1)..BatchEnd(i0)

\* the promises of the batch are created synchronously, one after another
LaunchBatch(i0) ==
    task' = [t \in DOMAIN task |-> IF t \in BatchTasks(i0) THEN "running" ELSE task[t]]

Unsettled == { t \in DOMAIN task : task[t] = "running" }
Succeeded == { t \in DOMAIN task : task[t] = "ok" }
Failed    == { t \in DOMAIN task : task[t] = "fail" }

\* the await resumes as soon as one promise of the batch has settled
BatchHasAnySettled(i0) == \E t \in BatchTasks(i0) : task[t] # "running"

\* await Promise.allSettled(batch) resumes when no promise of the batch is
\* pending any more
BatchHasSettled(i0) == \A t \in BatchTasks(i0) : task[t] # "running"

\* the results in the reverse of the promises' order
AllSettledReversed(i0) ==
    [k \in 1..(BatchEnd(i0) - i0) |->
        [status  |-> "fulfilled",
         pageNum |-> BatchEnd(i0) + 1 - k,
         docIndex |-> BatchEnd(i0) - k,
         success |-> task[BatchEnd(i0) + 1 - k] = "ok"]]

\* Promise.allSettled(batch): one result per promise, in the order of the
\* promises. downloadPage and the file-wrapper task catch every error, so
\* each promise is fulfilled with a value that carries success.
AllSettled(i0) ==
    [k \in 1..(BatchEnd(i0) - i0) |->
        [status  |-> "fulfilled",
         pageNum |-> i0 + k,          \* downloadPage(page), page = i + 1 .. batchEnd
         docIndex |-> i0 + k - 1,     \* docIndex = i + batchIndex
         success |-> task[i0 + k] = "ok"]]

(* ------------------------------ assembly ------------------------------ *)
\* downloadResults.forEach: pageFiles.push(...) for fulfilled and successful
RECURSIVE PageFilesOf(_)
PageFilesOf(results) ==
    IF results = <<>> THEN <<>>
    ELSE LET r == Head(results)
         IN  (IF r.status = "fulfilled" /\ r.success THEN << r.pageNum >> ELSE <<>>)
             \o PageFilesOf(Tail(results))

\* the comparator with its operands swapped (b.pageNum - a.pageNum)
ComparePagesSwapped(a, b) == b - a

\* the comparator of pageFiles.sort((a, b) => a.pageNum - b.pageNum)
ComparePages(a, b) == a - b

RECURSIVE InsertSorted(_, _)
InsertSorted(x, s) ==
    IF s = <<>> THEN << x >>
    ELSE IF ComparePages(x, Head(s)) < 0 THEN << x >> \o s
         ELSE << Head(s) >> \o InsertSorted(x, Tail(s))

\* Array.prototype.sort with that comparator (stable)
RECURSIVE SortPages(_)
SortPages(s) ==
    IF s = <<>> THEN <<>>
    ELSE InsertSorted(s[Len(s)], SortPages(SubSeq(s, 1, Len(s) - 1)))

\* a merge loop that ends at the first page it cannot add
RECURSIVE MergePagesAborting(_, _)
MergePagesAborting(pageFiles, unreadable) ==
    IF pageFiles = <<>> \/ Head(pageFiles) \in unreadable THEN <<>>
    ELSE << Head(pageFiles) >> \o MergePagesAborting(Tail(pageFiles), unreadable)

\* the merge loop of downloadAllPages: a page that cannot be read, loaded or
\* copied is logged and skipped
RECURSIVE MergePages(_, _)
MergePages(pageFiles, unreadable) ==
    IF pageFiles = <<>> THEN <<>>
    ELSE (IF Head(pageFiles) \in unreadable THEN <<>> ELSE << Head(pageFiles) >>)
         \o MergePages(Tail(pageFiles), unreadable)

\* zip.file(name, data): a name already in the archive is overwritten
ZipFile(z, name, buffer) ==
    IF \E k \in 1..Len(z) : z[k].name = name
    THEN [k \in 1..Len(z) |-> IF z[k].name = name THEN [z[k] EXCEPT !.buffer = buffer] ELSE z[k]]
    ELSE Append(z, [name |-> name, buffer |-> buffer])

\* ZIP mode, results.forEach: add the successful downloads to the archive
RECURSIVE ZipResults(_, _)
ZipResults(z, results) ==
    IF results = <<>> THEN z
    ELSE LET r == Head(results)
             name == SafeFileName(FileNameOf(documents[r.docIndex + 1], r.docIndex))
         IN  ZipResults(IF r.status = "fulfilled" /\ r.success
                        THEN ZipFile(z, name, r.docIndex) ELSE z,
                        Tail(results))

\* merged mode, results.forEach: downloadedPdfs[result.value.docIndex] = value
RECURSIVE StoreResults(_, _)
StoreResults(pdfs, results) ==
    IF results = <<>> THEN pdfs
    ELSE LET r == Head(results)
         IN  StoreResults(IF r.status = "fulfilled"
                          THEN [pdfs EXCEPT ![r.docIndex + 1] = r] ELSE pdfs,
                          Tail(results))

\* merged mode, the merge loop: for i = 0 .. downloadedPdfs.length - 1
\* a document whose pages cannot be copied is logged and skipped
RECURSIVE MergePdfs(_, _, _)
MergePdfs(pdfs, k, unreadable) ==
    IF k > Len(pdfs) THEN <<>>
    ELSE (IF pdfs[k].status = "fulfilled" /\ pdfs[k].success /\ pdfs[k].docIndex \notin unreadable
          THEN << pdfs[k].docIndex >> ELSE <<>>)
         \o MergePdfs(pdfs, k + 1, unreadable)

NoOutput == [written |-> FALSE, content |-> <<>>]
NoResult == [returned |-> FALSE]
EmptySlot == [status |-> "empty", pageNum |-> 0, docIndex |-> 0, success |-> FALSE]

\* what the caller of the IPC handler receives
Success(message) == [returned |-> TRUE, success |-> TRUE, message |-> message, filePath |-> "filePath"]
SuccessNoMessage == [returned |-> TRUE, success |-> TRUE, filePath |-> "filePath"]
Failure(message) == [returned |-> TRUE, success |-> FALSE, message |-> message]

(* --------------------------- progress events -------------------------- *)
\* { completed, total: documents.length, status }
ProgressEvent(n, status) == [completed |-> n, total |-> Len(documents), status |-> status]

\* if (event) { event.sender.send('file-wrapper-progress', ...) }
Send(sent, progressEvent) == IF reporter = "none" THEN sent ELSE Append(sent, progressEvent)

\* the event of each result sent before completed++
RECURSIVE SendEachBeforeCounting(_, _, _)
SendEachBeforeCounting(sent, done, n) ==
    IF n = 0 THEN sent
    ELSE SendEachBeforeCounting(Send(sent, ProgressEvent(done, "downloading")), done + 1, n - 1)

\* results.forEach: completed++ and one 'downloading' event per result
RECURSIVE SendEach(_, _, _)
SendEach(sent, done, n) ==
    IF n = 0 THEN sent
    ELSE SendEach(Send(sent, ProgressEvent(done + 1, "downloading")), done + 1, n - 1)

(* ------------------------------- actions ------------------------------ *)
DlInit ==
    /\ mode \in {"pages", "zip", "merged"}
    /\ numberOfPages \in (IF mode = "pages" THEN 0..MaxPages ELSE {0})
    /\ documents \in (CASE mode = "pages"  -> { <<>> }
                        [] mode = "zip"    -> SeqsUpTo(DocPool, MaxDocs)
                        \* the merged download never reads the naming fields
                        [] mode = "merged" -> SeqsUpTo({ MergedDoc }, MaxDocs))
    /\ pc = "start"
    /\ i = 0
    /\ task = [t \in 1..N |-> "pending"]
    /\ downloadResults = <<>>
    /\ zip = <<>>
    /\ downloadedPdfs = [k \in 1..Len(documents) |-> EmptySlot]
    /\ completed = 0
    /\ tempDir = FALSE
    /\ output = NoOutput
    /\ result = NoResult
    /\ fault = {}
    /\ skippedInMerge = {}
    /\ settledOutOfOrder = FALSE
    \* downloadAllPages takes no reporter; the file-wrapper functions take
    \* `event` or its default null
    /\ reporter \in (IF mode = "pages" THEN {"none"} ELSE {"none", "live"})
    /\ progress = <<>>

\* the request starts: the scratch directory is made (downloadAllPages) and
\* the first batch, if there is one, is created
Start ==
    /\ pc = "start"
    /\ reporter # "destroyed"
    /\ progress' = Send(progress, ProgressEvent(0, "downloading"))
    /\ tempDir' = (mode = "pages")
    /\ IF 0 < N
       THEN /\ LaunchBatch(0)
            /\ pc' = "fetching"
       ELSE /\ pc' = "assemble"
            /\ UNCHANGED task
    /\ UNCHANGED <<mode, numberOfPages, documents, skippedInMerge, i, downloadResults, zip,
                   downloadedPdfs, completed, output, result, fault,
                   settledOutOfOrder, reporter>>
    /\ UNCHANGED <<tokVars, fetchVars, uiVars, nameVars, patVars, parseVars, otherVars>>

\* fs.promises.mkdir(tempDir) throws: downloadAllPages rethrows and
\* downloadPatentFromEPO turns the exception into a failure result
MkdirFails ==
    /\ pc = "start"
    /\ mode = "pages"
    /\ pc' = "done"
    /\ result' = Failure("mkdir failed")
    /\ fault' = {"mkdir"}
    /\ UNCHANGED <<mode, numberOfPages, documents, skippedInMerge, i, task, downloadResults, zip,
                   downloadedPdfs, completed, tempDir, output, settledOutOfOrder,
                   reporter, progress>>
    /\ UNCHANGED <<tokVars, fetchVars, uiVars, nameVars, patVars, parseVars, otherVars>>

\* a task whose failure is thrown across the batch loop (Promise.all)
SettleOrAbort(t, outcome) ==
    /\ pc = "fetching"
    /\ task[t] = "running"
    /\ task' = [task EXCEPT ![t] = outcome]
    /\ pc' = IF outcome = "fail" THEN "done" ELSE pc
    /\ result' = IF outcome = "fail" THEN Failure("task failed") ELSE result
    /\ settledOutOfOrder' =
          (settledOutOfOrder \/ \E u \in BatchTasks(i) : u < t /\ task[u] = "running")
    /\ UNCHANGED <<mode, numberOfPages, documents, skippedInMerge, i, downloadResults, zip,
                   downloadedPdfs, completed, tempDir, output, fault,
                   reporter, progress>>
    /\ UNCHANGED <<tokVars, fetchVars, uiVars, nameVars, patVars, parseVars, otherVars>>

\* one fetch task of the running batch settles, in any order
Settle(t, outcome) ==
    /\ pc = "fetching"
    /\ task[t] = "running"
    /\ task' = [task EXCEPT ![t] = outcome]
    /\ settledOutOfOrder' =
          (settledOutOfOrder \/ \E u \in BatchTasks(i) : u < t /\ task[u] = "running")
    /\ UNCHANGED <<mode, numberOfPages, documents, skippedInMerge, pc, i, downloadResults, zip,
                   downloadedPdfs, completed, tempDir, output, result, fault,
                   reporter, progress>>
    /\ UNCHANGED <<tokVars, fetchVars, uiVars, nameVars, patVars, parseVars, otherVars>>

\* await Promise.allSettled(batch) resumes: the results are collected and the
\* loop goes on to the next batch, or leaves
BatchSettled ==
    /\ pc = "fetching"
    /\ BatchHasSettled(i)
    /\ reporter # "destroyed"
    /\ LET results == AllSettled(i)
       IN  /\ downloadResults' = IF mode = "pages" THEN downloadResults \o results
                                 ELSE downloadResults
           /\ zip' = IF mode = "zip" THEN ZipResults(zip, results) ELSE zip
           /\ downloadedPdfs' = IF mode = "merged" THEN StoreResults(downloadedPdfs, results)
                                ELSE downloadedPdfs
           /\ completed' = IF mode = "pages" THEN completed ELSE completed + Len(results)
           /\ progress' = IF mode = "pages" THEN progress
                          ELSE SendEach(progress, completed, Len(results))
    /\ i' = i + Ceiling
    /\ IF i' < N
       THEN /\ LaunchBatch(i')
            /\ pc' = "fetching"
       ELSE /\ pc' = "assemble"
            /\ UNCHANGED task
    /\ UNCHANGED <<mode, numberOfPages, documents, skippedInMerge, tempDir, output, result,
                   fault, settledOutOfOrder, reporter>>
    /\ UNCHANGED <<tokVars, fetchVars, uiVars, nameVars, patVars, parseVars, otherVars>>

\* downloadAllPages after the loop: filter, sort, merge, write, clean up
AssemblePages ==
    /\ pc = "assemble"
    /\ mode = "pages"
    /\ pc' = "done"
    /\ LET pageFiles == PageFilesOf(downloadResults)
       IN  IF Len(pageFiles) = 0
           THEN \* throw new Error('No pages were downloaded successfully')
                /\ result' = Failure("No pages were downloaded successfully")
                /\ UNCHANGED <<output, tempDir, fault, skippedInMerge>>
           ELSE \E unreadable \in SUBSET { pageFiles[k] : k \in 1..Len(pageFiles) },
                   writeOk \in BOOLEAN, rmOk \in BOOLEAN :
                   /\ (~writeOk => rmOk)   \* the removal is not reached
                   /\ skippedInMerge' = unreadable
                   /\ fault' = (IF unreadable = {} THEN {} ELSE {"unreadable"})
                                \cup (IF writeOk THEN {} ELSE {"write"})
                                \cup (IF rmOk THEN {} ELSE {"rm"})
                   /\ IF writeOk
                      THEN /\ output' = [written |-> TRUE,
                                         content |-> MergePages(SortPages(pageFiles), unreadable)]
                           /\ tempDir' = ~rmOk
                           /\ result' = Success("Downloaded")
                      ELSE /\ result' = Failure("write failed")
                           /\ UNCHANGED <<output, tempDir>>
    /\ UNCHANGED <<mode, numberOfPages, documents, i, task, downloadResults, zip,
                   downloadedPdfs, completed, settledOutOfOrder, reporter, progress>>
    /\ UNCHANGED <<tokVars, fetchVars, uiVars, nameVars, patVars, parseVars, otherVars>>

\* downloadFileWrapperAsZipParallel after the loop: generate and write the ZIP
AssembleZip ==
    /\ pc = "assemble"
    /\ mode = "zip"
    /\ reporter # "destroyed"
    /\ progress' = Send(progress, ProgressEvent(Len(documents), "creating-zip"))
    /\ pc' = "done"
    /\ \E writeOk \in BOOLEAN :
          /\ fault' = (IF writeOk THEN {} ELSE {"write"})
          /\ IF writeOk
             THEN /\ output' = [written |-> TRUE, content |-> zip]
                  /\ result' = SuccessNoMessage
             ELSE /\ result' = Failure("Failed to download documents")
                  /\ UNCHANGED output
    /\ UNCHANGED <<mode, numberOfPages, documents, skippedInMerge, i, task, downloadResults, zip,
                   downloadedPdfs, completed, tempDir, settledOutOfOrder, reporter>>
    /\ UNCHANGED <<tokVars, fetchVars, uiVars, nameVars, patVars, parseVars, otherVars>>

\* downloadFileWrapperAsMergedParallel after the loop: merge in order, write
AssembleMerged ==
    /\ pc = "assemble"
    /\ mode = "merged"
    /\ reporter # "destroyed"
    /\ progress' = Send(progress, ProgressEvent(Len(documents), "merging"))
    /\ pc' = "done"
    /\ \E unreadable \in SUBSET { t - 1 : t \in Succeeded }, writeOk \in BOOLEAN :
          /\ skippedInMerge' = unreadable
          /\ fault' = (IF unreadable = {} THEN {} ELSE {"unreadable"})
                       \cup (IF writeOk THEN {} ELSE {"write"})
          /\ IF writeOk
             THEN /\ output' = [written |-> TRUE,
                                content |-> MergePdfs(downloadedPdfs, 1, unreadable)]
                  /\ result' = SuccessNoMessage
             ELSE /\ result' = Failure("Failed to download documents")
                  /\ UNCHANGED output
    /\ UNCHANGED <<mode, numberOfPages, documents, i, task, downloadResults, zip,
                   downloadedPdfs, completed, tempDir, settledOutOfOrder, reporter>>
    /\ UNCHANGED <<tokVars, fetchVars, uiVars, nameVars, patVars, parseVars, otherVars>>

\* the window that invoked the handler is closed while the request runs:
\* event.sender is destroyed
SenderDestroyed ==
    /\ reporter = "live"
    /\ pc # "done"
    /\ reporter' = "destroyed"
    /\ UNCHANGED <<mode, numberOfPages, documents, skippedInMerge, pc, i, task, downloadResults, zip,
                   downloadedPdfs, completed, tempDir, output, result, fault,
                   settledOutOfOrder, progress>>
    /\ UNCHANGED <<tokVars, fetchVars, uiVars, nameVars, patVars, parseVars, otherVars>>

\* the next event.sender.send throws ('Object has been destroyed'): at the
\* initial event, at the first result of a settled batch (whose payload has
\* been stored and counted), or at the assembly event. Neither function
\* catches it; the handler returns the failure and nothing is written.
SendThrows ==
    /\ reporter = "destroyed"
    /\ \/ pc \in {"start", "assemble"}
       \/ pc = "fetching" /\ BatchHasSettled(i)
    /\ IF pc = "fetching"
       THEN LET first == SubSeq(AllSettled(i), 1, 1)
            IN  /\ zip' = IF mode = "zip" THEN ZipResults(zip, first) ELSE zip
                /\ downloadedPdfs' = IF mode = "merged"
                                     THEN StoreResults(downloadedPdfs, first)
                                     ELSE downloadedPdfs
                /\ completed' = completed + 1
       ELSE UNCHANGED <<zip, downloadedPdfs, completed>>
    /\ pc' = "done"
    /\ result' = Failure("Failed to download documents")
    /\ fault' = {"sender"}
    /\ UNCHANGED <<mode, numberOfPages, documents, skippedInMerge, i, task, downloadResults,
                   tempDir, output, settledOutOfOrder, reporter, progress>>
    /\ UNCHANGED <<tokVars, fetchVars, uiVars, nameVars, patVars, parseVars, otherVars>>

DlNext ==
    \/ SenderDestroyed
    \/ SendThrows
    \/ Start
    \/ MkdirFails
    \/ \E t \in DOMAIN task, outcome \in {"ok", "fail"} : Settle(t, outcome)
    \/ BatchSettled
    \/ AssemblePages
    \/ AssembleZip
    \/ AssembleMerged

(* ====================================================================== *)
(* The session token cache and the 'download-patent' handler              *)
(* ====================================================================== *)
\* the handler invocations that may be in progress together
Callers == {"a", "b"}

\* globalTokenExpiry = now + (14 * 60 * 1000), in minutes
TOKEN_CACHE_MINUTES == 14

\* the clock moves in steps of half the cache lifetime
TickMinutes == TOKEN_CACHE_MINUTES \div 2

\* usptoApiKey.length < 10: the shortest key the handler lets through
API_KEY_MIN_LENGTH == 10

\* what the handler finds in the configuration files when it is invoked
Configurations == {"ok", "settingsUnreadable", "keysUnreadable", "noDirectory", "noKeys"}

\* the ways getEPOAccessToken rejects once the request is sent
TokenFailures == {"http", "noAccessToken", "parse", "network"}

IdleCall == [pc |-> "idle", now |-> 0, reqAtStart |-> 0]

\* the condition with the expiry left out
CacheValidIgnoringExpiry(now) == globalAccessToken # 0

\* if (globalAccessToken && globalTokenExpiry && now < globalTokenExpiry)
CacheValid(now) ==
    globalAccessToken # 0 /\ globalTokenExpiry # 0 /\ now < globalTokenExpiry

TokenInFlight == { c \in Callers : call[c].pc = "token" }

TokIdle ==
    /\ globalAccessToken = 0
    /\ globalTokenExpiry = 0
    /\ clock = 0
    /\ call = [c \in Callers |-> IdleCall]
    /\ tokenRequests = 0
    /\ tokenStartedAt = <<>>
    /\ lastTokenCall = [done |-> FALSE]
    /\ overlapSeen = FALSE

\* the message of the handler's early return
PreconditionMessage(cfg) ==
    CASE cfg = "settingsUnreadable" -> "Failed to load download settings"
      [] cfg = "keysUnreadable"     -> "Failed to load API keys"
      [] cfg = "noDirectory"        -> "Download directory not configured. Please set it in Settings."
      [] cfg = "noKeys"             -> "Espacenet API keys not configured"

\* the handler returns before downloadPatentFromEPO is called: a
\* configuration file cannot be read, or the download directory or the
\* Espacenet keys are not configured
PreconditionFails(c, cfg) ==
    /\ call[c].pc = "idle"
    /\ cfg # "ok"
    /\ call' = [call EXCEPT ![c] =
                   [IdleCall EXCEPT !.pc = "returned"] @@
                   [result |-> Failure(PreconditionMessage(cfg))]]
    /\ UNCHANGED <<globalAccessToken, globalTokenExpiry, clock, tokenRequests, tokenStartedAt,
                   lastTokenCall, overlapSeen>>
    /\ UNCHANGED <<dlVars, fetchVars, uiVars, nameVars, patVars, parseVars, otherVars>>

\* the handler reaches getEPOAccessTokenWithCache while the cache is valid:
\* the cached token is returned and the download goes on with it
InvokeCached(c) ==
    /\ call[c].pc = "idle"
    /\ CacheValid(clock)
    /\ call' = [call EXCEPT ![c] =
                   [pc |-> "download", now |-> clock, reqAtStart |-> tokenRequests,
                    token |-> globalAccessToken]]
    /\ lastTokenCall' =
          [done |-> TRUE,
           cachedAtStart |-> globalAccessToken,
           expiryAtStart |-> globalTokenExpiry,
           now |-> clock,
           requests |-> 0,
           returned |-> globalAccessToken]
    /\ overlapSeen' = (overlapSeen \/ TokenInFlight # {})
    /\ UNCHANGED <<globalAccessToken, globalTokenExpiry, clock, tokenRequests, tokenStartedAt>>
    /\ UNCHANGED <<dlVars, fetchVars, uiVars, nameVars, patVars, parseVars, otherVars>>

\* the handler reaches getEPOAccessTokenWithCache while the cache is empty or
\* expired: getEPOAccessToken sends the request to the token endpoint
InvokeRefresh(c) ==
    /\ call[c].pc = "idle"
    /\ ~CacheValid(clock)
    /\ tokenRequests < MaxTokenRequests
    /\ tokenRequests' = tokenRequests + 1
    /\ tokenStartedAt' = Append(tokenStartedAt, clock)
    /\ call' = [call EXCEPT ![c] =
                   [pc |-> "token", now |-> clock, reqAtStart |-> tokenRequests,
                    request |-> tokenRequests + 1,
                    cachedAtStart |-> globalAccessToken,
                    expiryAtStart |-> globalTokenExpiry]]
    /\ overlapSeen' = (overlapSeen \/ TokenInFlight # {})
    /\ UNCHANGED <<globalAccessToken, globalTokenExpiry, clock, lastTokenCall>>
    /\ UNCHANGED <<dlVars, fetchVars, uiVars, nameVars, patVars, parseVars, otherVars>>

\* the token endpoint rejects the request and the failure also wipes the cache
TokenFailsAndClears(c, why) ==
    /\ call[c].pc = "token"
    /\ globalAccessToken' = 0
    /\ globalTokenExpiry' = 0
    /\ lastTokenCall' =
          [done |-> TRUE,
           cachedAtStart |-> call[c].cachedAtStart,
           expiryAtStart |-> call[c].expiryAtStart,
           now |-> call[c].now,
           requests |-> tokenRequests - call[c].reqAtStart,
           returned |-> 0]
    /\ call' = [call EXCEPT ![c] =
                   [pc |-> "returned", now |-> call[c].now, reqAtStart |-> call[c].reqAtStart,
                    tokenFailure |-> why,
                    result |-> Failure("token request failed")]]
    /\ UNCHANGED <<clock, tokenRequests, tokenStartedAt, overlapSeen>>
    /\ UNCHANGED <<dlVars, fetchVars, uiVars, nameVars, patVars, parseVars, otherVars>>

\* getEPOAccessToken rejects (status other than 200, no access_token, body not
\* JSON, network error): the await throws before the two assignments, and
\* downloadPatentFromEPO returns { success: false, message }
TokenFails(c, why) ==
    /\ call[c].pc = "token"
    /\ lastTokenCall' =
          [done |-> TRUE,
           cachedAtStart |-> call[c].cachedAtStart,
           expiryAtStart |-> call[c].expiryAtStart,
           now |-> call[c].now,
           requests |-> tokenRequests - call[c].reqAtStart,
           returned |-> 0]
    /\ call' = [call EXCEPT ![c] =
                   [pc |-> "returned", now |-> call[c].now, reqAtStart |-> call[c].reqAtStart,
                    tokenFailure |-> why,
                    result |-> Failure("token request failed")]]
    /\ UNCHANGED <<globalAccessToken, globalTokenExpiry, clock, tokenRequests, tokenStartedAt, overlapSeen>>
    /\ UNCHANGED <<dlVars, fetchVars, uiVars, nameVars, patVars, parseVars, otherVars>>

\* the same with the expiry counted from the moment the token arrives
TokenArrivesCountedFromArrival(c) ==
    /\ call[c].pc = "token"
    /\ globalAccessToken' = call[c].request
    /\ globalTokenExpiry' = clock + TOKEN_CACHE_MINUTES
    /\ lastTokenCall' =
          [done |-> TRUE,
           cachedAtStart |-> call[c].cachedAtStart,
           expiryAtStart |-> call[c].expiryAtStart,
           now |-> call[c].now,
           requests |-> tokenRequests - call[c].reqAtStart,
           returned |-> call[c].request]
    /\ call' = [call EXCEPT ![c] =
                   [pc |-> "download", now |-> call[c].now, reqAtStart |-> call[c].reqAtStart,
                    token |-> call[c].request]]
    /\ UNCHANGED <<clock, tokenRequests, tokenStartedAt, overlapSeen>>
    /\ UNCHANGED <<dlVars, fetchVars, uiVars, nameVars, patVars, parseVars, otherVars>>

\* getEPOAccessToken resolves with the token of this request: it is cached
\* with the expiry counted from the `now` read when the call began
TokenArrives(c) ==
    /\ call[c].pc = "token"
    /\ globalAccessToken' = call[c].request
    /\ globalTokenExpiry' = call[c].now + TOKEN_CACHE_MINUTES
    /\ lastTokenCall' =
          [done |-> TRUE,
           cachedAtStart |-> call[c].cachedAtStart,
           expiryAtStart |-> call[c].expiryAtStart,
           now |-> call[c].now,
           requests |-> tokenRequests - call[c].reqAtStart,
           returned |-> call[c].request]
    /\ call' = [call EXCEPT ![c] =
                   [pc |-> "download", now |-> call[c].now, reqAtStart |-> call[c].reqAtStart,
                    token |-> call[c].request]]
    /\ UNCHANGED <<clock, tokenRequests, tokenStartedAt, overlapSeen>>
    /\ UNCHANGED <<dlVars, fetchVars, uiVars, nameVars, patVars, parseVars, otherVars>>

\* the rest of downloadPatentFromEPO (document info, download) ends: with the
\* result of downloadEPODocument, or with the caught error as a failure
DownloadEnds(c, ok) ==
    /\ call[c].pc = "download"
    /\ call' = [call EXCEPT ![c] =
                   [pc |-> "returned", now |-> call[c].now, reqAtStart |-> call[c].reqAtStart,
                    result |-> IF ok THEN Success("Downloaded")
                               ELSE Failure("download failed")]]
    /\ UNCHANGED <<globalAccessToken, globalTokenExpiry, clock, tokenRequests, tokenStartedAt,
                   lastTokenCall, overlapSeen>>
    /\ UNCHANGED <<dlVars, fetchVars, uiVars, nameVars, patVars, parseVars, otherVars>>

\* the caller has its result; the renderer may invoke the handler again
NextInvocation(c) ==
    /\ call[c].pc = "returned"
    /\ call' = [call EXCEPT ![c] = IdleCall]
    /\ UNCHANGED <<globalAccessToken, globalTokenExpiry, clock, tokenRequests, tokenStartedAt,
                   lastTokenCall, overlapSeen>>
    /\ UNCHANGED <<dlVars, fetchVars, uiVars, nameVars, patVars, parseVars, otherVars>>

\* time passes
Tick ==
    /\ clock + TickMinutes <= MaxClockTicks * TickMinutes
    /\ clock' = clock + TickMinutes
    /\ UNCHANGED <<globalAccessToken, globalTokenExpiry, call, tokenRequests, tokenStartedAt,
                   lastTokenCall, overlapSeen>>
    /\ UNCHANGED <<dlVars, fetchVars, uiVars, nameVars, patVars, parseVars, otherVars>>

TokNext ==
    \/ \E c \in Callers, cfg \in Configurations : PreconditionFails(c, cfg)
    \/ \E c \in Callers : InvokeCached(c)
    \/ \E c \in Callers : InvokeRefresh(c)
    \/ \E c \in Callers, why \in TokenFailures : TokenFails(c, why)
    \/ \E c \in Callers : TokenArrives(c)
    \/ \E c \in Callers, ok \in BOOLEAN : DownloadEnds(c, ok)
    \/ \E c \in Callers : NextInvocation(c)
    \/ Tick

(* ====================================================================== *)
(* One HTTP fetch: downloadSinglePage, downloadUsptoDocument,             *)
(* fetchUsptoFileWrapperDocuments, downloadFileFromUrl                    *)
(* ====================================================================== *)
\* "file" is downloadFileFromUrl, the fetch of the sequential file-wrapper
\* downloads (which the later declarations of the same names replace)
FetchKinds == {"page", "document", "list", "file"}

\* the status codes a server answers with in the model
Statuses == {200, 301, 302, 404, 429, 500}

Redirects == {301, 302}

Awaiting == fetchState \in {"request", "redirect"}
FetchSettled == fetchState \in {"resolved", "rejected"}

FetchInit ==
    /\ fetchKind \in FetchKinds
    /\ fetchState = "request"
    /\ attempts = 1
    \* only the list fetch and downloadFileFromUrl call req.setTimeout
    /\ timerArmed = (fetchKind \in {"list", "file"})
    /\ staleTimer = FALSE
    /\ serverSilent = FALSE
    /\ rejectedOn = 0
    /\ redirectSentKey = FALSE
    /\ responses = <<>>
    /\ hops = 0

\* the status codes received last
Remember(seen, status) ==
    LET all == Append(seen, status)
    IN  IF Len(all) > MaxAttempts THEN Tail(all) ELSE all

\* the promise settles: nothing of the fetch is pending any more
SettleFetch(state, status) ==
    /\ fetchState' = state
    /\ rejectedOn' = status
    /\ timerArmed' = FALSE
    /\ staleTimer' = FALSE
    /\ UNCHANGED <<attempts, redirectSentKey, hops>>

\* downloadSinglePage: the response callback
PageResponse(status, bodyOk) ==
    IF status # 200 THEN SettleFetch("rejected", status)
    ELSE IF bodyOk THEN SettleFetch("resolved", 0)    \* writeStream 'finish'
    ELSE SettleFetch("rejected", 0)                    \* writeStream 'error'

\* downloadUsptoDocument: the response callback
DocumentResponse(status, hasLocation) ==
    IF status \in Redirects
    THEN IF ~hasLocation
         THEN SettleFetch("rejected", status)  \* 'Redirect response missing location header'
         ELSE /\ fetchState' = "redirect"
              /\ redirectSentKey' = FALSE       \* headers: { accept } only
              /\ hops' = Min(hops + 1, MaxHops)
              /\ UNCHANGED <<attempts, timerArmed, staleTimer, rejectedOn>>
    ELSE IF status = 200 THEN SettleFetch("resolved", 0)
    ELSE SettleFetch("rejected", status)

\* fetchUsptoFileWrapperDocuments: the response callback. After a redirect or
\* a 429 the response is never read, so the socket of the answered request
\* stays idle: its 30 s timer fires unless the server closes the connection
\* first. The redirected request has no timer of its own.
ListResponse(status, hasLocation, bodyOk, connectionKept) ==
    IF status \in Redirects /\ hasLocation
    THEN /\ fetchState' = "redirect"
         /\ redirectSentKey' = TRUE             \* headers: options.headers
         /\ timerArmed' = FALSE
         /\ staleTimer' = (staleTimer \/ (timerArmed /\ connectionKept))
         /\ hops' = Min(hops + 1, MaxHops)
         /\ UNCHANGED <<attempts, rejectedOn>>
    ELSE IF status = 429
    THEN /\ fetchState' = "retryWait"           \* setTimeout(..., 100)
         /\ timerArmed' = FALSE
         /\ staleTimer' = (staleTimer \/ (timerArmed /\ connectionKept))
         /\ UNCHANGED <<attempts, rejectedOn, redirectSentKey, hops>>
    ELSE IF status = 200
    THEN IF bodyOk THEN SettleFetch("resolved", 0)
         ELSE SettleFetch("rejected", 0)        \* 'Failed to parse API response'
    ELSE SettleFetch("rejected", status)

\* downloadFileFromUrl: the response callback. Every 3xx with a location
\* header is followed by calling downloadFileFromUrl again, whose request has
\* a timer of its own.
FileResponse(status, hasLocation, connectionKept) ==
    IF status = 200 THEN SettleFetch("resolved", 0)
    ELSE IF status \in Redirects /\ hasLocation
    THEN /\ fetchState' = "request"
         /\ hops' = Min(hops + 1, MaxHops)
         /\ timerArmed' = TRUE
         /\ staleTimer' = (staleTimer \/ (timerArmed /\ connectionKept))
         /\ UNCHANGED <<attempts, rejectedOn, redirectSentKey>>
    ELSE SettleFetch("rejected", status)

\* the server answers the request sent to the original URL
Respond(status, hasLocation, bodyOk, connectionKept) ==
    /\ fetchState = "request"
    /\ ~serverSilent
    /\ responses' = Remember(responses, status)
    /\ CASE fetchKind = "page"     -> PageResponse(status, bodyOk)
         [] fetchKind = "document" -> DocumentResponse(status, hasLocation)
         [] fetchKind = "list"     -> ListResponse(status, hasLocation, bodyOk, connectionKept)
         [] fetchKind = "file"     -> FileResponse(status, hasLocation, connectionKept)
    /\ UNCHANGED serverSilent
    /\ UNCHANGED <<dlVars, tokVars, fetchKind, uiVars, nameVars, patVars, parseVars, otherVars>>

\* the redirect target answers: 200 resolves, anything else rejects
RespondRedirect(status, bodyOk) ==
    /\ fetchState = "redirect"
    /\ ~serverSilent
    /\ responses' = Remember(responses, status)
    /\ IF status # 200 THEN SettleFetch("rejected", status)
       ELSE IF fetchKind = "list" /\ ~bodyOk
       THEN SettleFetch("rejected", 0)          \* 'Failed to parse redirected response'
       ELSE SettleFetch("resolved", 0)
    /\ UNCHANGED serverSilent
    /\ UNCHANGED <<dlVars, tokVars, fetchKind, uiVars, nameVars, patVars, parseVars, otherVars>>

\* req.on('error') / redirectReq.on('error')
NetworkError ==
    /\ Awaiting
    /\ SettleFetch("rejected", 0)
    /\ UNCHANGED <<serverSilent, responses>>
    /\ UNCHANGED <<dlVars, tokVars, fetchKind, uiVars, nameVars, patVars, parseVars, otherVars>>

\* the server leaves the open request unanswered for good
ServerGoesSilent ==
    /\ Awaiting
    /\ ~serverSilent
    /\ serverSilent' = TRUE
    /\ UNCHANGED <<fetchState, attempts, timerArmed, staleTimer, rejectedOn,
                   redirectSentKey, responses, hops>>
    /\ UNCHANGED <<dlVars, tokVars, fetchKind, uiVars, nameVars, patVars, parseVars, otherVars>>

\* the 100 ms delay after a 429 is over: the list fetch calls itself again
RetryFires ==
    /\ fetchState = "retryWait"
    /\ fetchState' = "request"
    /\ attempts' = Min(attempts + 1, MaxAttempts)   \* counted up to MaxAttempts
    /\ timerArmed' = TRUE                        \* the new request's own timer
    /\ UNCHANGED <<staleTimer, serverSilent, rejectedOn, redirectSentKey, responses, hops>>
    /\ UNCHANGED <<dlVars, tokVars, fetchKind, uiVars, nameVars, patVars, parseVars, otherVars>>

\* a req.setTimeout callback runs: req.destroy(); reject('Request timeout')
FetchTimeout ==
    /\ timerArmed \/ staleTimer
    /\ ~FetchSettled
    /\ SettleFetch("rejected", 0)
    /\ UNCHANGED <<serverSilent, responses>>
    /\ UNCHANGED <<dlVars, tokVars, fetchKind, uiVars, nameVars, patVars, parseVars, otherVars>>

FetchNext ==
    \/ \E status \in Statuses, hasLocation \in BOOLEAN, bodyOk \in BOOLEAN,
          connectionKept \in BOOLEAN : Respond(status, hasLocation, bodyOk, connectionKept)
    \/ \E status \in Statuses, bodyOk \in BOOLEAN : RespondRedirect(status, bodyOk)
    \/ NetworkError
    \/ ServerGoesSilent
    \/ RetryFires
    \/ FetchTimeout

\* a fetch that is not being looked at
FetchIdle ==
    /\ fetchKind = "page"
    /\ fetchState = "resolved"
    /\ attempts = 0
    /\ timerArmed = FALSE
    /\ staleTimer = FALSE
    /\ serverSilent = FALSE
    /\ rejectedOn = 0
    /\ redirectSentKey = FALSE
    /\ responses = <<>>
    /\ hops = 0

\* a download that is not being looked at
DlIdle ==
    /\ mode = "pages"
    /\ numberOfPages = 0
    /\ documents = <<>>
    /\ pc = "done"
    /\ i = 0
    /\ task = <<>>
    /\ downloadResults = <<>>
    /\ zip = <<>>
    /\ downloadedPdfs = <<>>
    /\ completed = 0
    /\ tempDir = FALSE
    /\ output = NoOutput
    /\ result = NoResult
    /\ fault = {}
    /\ skippedInMerge = {}
    /\ settledOutOfOrder = FALSE
    /\ reporter = "none"
    /\ progress = <<>>

(* ====================================================================== *)
(* Text: the characters and the string functions the code applies         *)
(* ====================================================================== *)
UPPER == <<"A", "B", "C", "D", "E", "F", "G", "H", "I", "J", "K", "L", "M",
           "N", "O", "P", "Q", "R", "S", "T", "U", "V", "W", "X", "Y", "Z">>
LOWER == <<"a", "b", "c", "d", "e", "f", "g", "h", "i", "j", "k", "l", "m",
           "n", "o", "p", "q", "r", "s", "t", "u", "v", "w", "x", "y", "z">>

\* [A-Z], [a-z], \d, and the white space String.prototype.trim removes
UpperLetters == { UPPER[k] : k \in DOMAIN UPPER }
LowerLetters == { LOWER[k] : k \in DOMAIN LOWER }
Digits == { "0", "1", "2", "3", "4", "5", "6", "7", "8", "9" }
WhiteSpace == { " ", "\t", "\n" }

\* toUpperCase replaced by a function that flips the case of every letter
SwapCase(s) ==
    [k \in 1..Len(s) |->
        IF s[k] \in LowerLetters
        THEN UPPER[CHOOSE j \in DOMAIN LOWER : LOWER[j] = s[k]]
        ELSE IF s[k] \in UpperLetters
        THEN LOWER[CHOOSE j \in DOMAIN UPPER : UPPER[j] = s[k]]
        ELSE s[k]]

\* String.prototype.toUpperCase on the characters of the model
ToUpperCase(s) ==
    [k \in 1..Len(s) |->
        IF s[k] \in LowerLetters
        THEN UPPER[CHOOSE j \in DOMAIN LOWER : LOWER[j] = s[k]]
        ELSE s[k]]

\* String.prototype.trim
RECURSIVE Trim(_)
Trim(s) ==
    IF s = <<>> THEN s
    ELSE IF Head(s) \in WhiteSpace THEN Trim(Tail(s))
    ELSE IF s[Len(s)] \in WhiteSpace THEN Trim(SubSeq(s, 1, Len(s) - 1))
    ELSE s

(* ====================================================================== *)
(* The renderer: PatentApp.addPublication                                 *)
(* ====================================================================== *)
validCountryCodes ==
    { <<"U", "S">>, <<"E", "P">>, <<"W", "O">>, <<"J", "P">>, <<"C", "N">>, <<"I", "N">> }

\* the ways /^([A-Z]{2})(\d+)([A-Z][A-Z0-9]?)$/ matches s: <<d, k>> with d
\* the length of group 2 and k the length of group 3 (at most one way)
PatternMatches(s) ==
    { m \in (1..Len(s)) \X {1, 2} :
        /\ Len(s) = 2 + m[1] + m[2]
        /\ s[1] \in UpperLetters /\ s[2] \in UpperLetters
        /\ \A k \in 3..(2 + m[1]) : s[k] \in Digits
        /\ s[2 + m[1] + 1] \in UpperLetters
        /\ m[2] = 2 => s[Len(s)] \in UpperLetters \cup Digits }

isValidPublicationNumber(pubNumber) ==
    /\ PatternMatches(pubNumber) # {}
    /\ LET m == CHOOSE x \in PatternMatches(pubNumber) : TRUE
           countryCode == SubSeq(pubNumber, 1, 2)
           numberPartLength == m[1]
           kindCodeLength == m[2]
       IN  /\ countryCode \in validCountryCodes
           /\ ~(numberPartLength < 4 \/ numberPartLength > 12)
           /\ ~(kindCodeLength < 1 \/ kindCodeLength > 3)

\* publicationInput.value.trim().toUpperCase()
NormalizeInput(value) == ToUpperCase(Trim(value))

\* n digits
RECURSIVE DigitRun(_)
DigitRun(n) == IF n = 0 THEN <<>> ELSE <<"1">> \o DigitRun(n - 1)

\* what the user types in the model: every jurisdiction with every kind
\* code around a four-digit number, the number lengths around the limits,
\* surrounding blanks, and the empty and the blank field
TypedInputs ==
    { cc \o DigitRun(4) \o kind :
        cc \in { <<"U", "S">>, <<"e", "p">>, <<"X", "X">> },
        kind \in { <<>>, <<"A">>, <<"b", "2">>, <<"A", "B">>, <<"A", "1", "2">> } }
    \cup { <<"U", "S">> \o DigitRun(n) \o <<"A">> : n \in {3, 12, 13} }
    \cup { <<" ">> \o <<"U", "S">> \o DigitRun(4) \o kind \o <<" ">> :
             kind \in { <<"A">>, <<"A", "1", "2">> } }
    \cup { <<>>, <<" ">>, <<"U", "S", "1", "2", "A", "4">> }

\* a membership test that finds nothing
ContainsNever(list, x) == FALSE

\* Array.prototype.includes
Contains(list, x) == \E k \in 1..Len(list) : list[k] = x

NoAdd == [called |-> FALSE]

UiInit ==
    /\ publicationInput = <<>>
    /\ publicationsList = <<>>
    /\ downloadButtonDisabled = TRUE
    /\ lastAdd = NoAdd
    /\ publicationItems = <<>>
    /\ publicationsCount = 0

\* the add button / Enter key, with `value` in the text field
addPublication(value) ==
    LET input == NormalizeInput(value)
        outcome == IF input = <<>> THEN "empty"
                   ELSE IF ~isValidPublicationNumber(input) THEN "invalid"
                   ELSE IF Contains(publicationsList, input) THEN "duplicate"
                   ELSE "added"
    IN  /\ outcome = "added" => Len(publicationsList) < MaxList
        /\ lastAdd' = [called |-> TRUE, raw |-> value, input |-> input,
                       outcome |-> outcome]
        /\ IF outcome = "added"
           THEN /\ publicationsList' = Append(publicationsList, input)
                /\ publicationInput' = <<>>
                \* updatePublicationsList renders the list anew
                /\ publicationItems' = publicationsList'
                /\ publicationsCount' = Len(publicationsList')
                /\ downloadButtonDisabled' = (Len(publicationsList') = 0)
           ELSE /\ publicationInput' = value
                /\ UNCHANGED <<publicationsList, downloadButtonDisabled,
                               publicationItems, publicationsCount>>
        /\ UNCHANGED <<dlVars, tokVars, fetchVars, nameVars, patVars, parseVars, otherVars>>

\* the Clear All button: the array is emptied in place and rendered
ClearAll ==
    /\ publicationsList' = <<>>
    /\ publicationItems' = <<>>
    /\ publicationsCount' = 0
    /\ downloadButtonDisabled' = TRUE
    /\ UNCHANGED <<publicationInput, lastAdd>>
    /\ UNCHANGED <<dlVars, tokVars, fetchVars, nameVars, patVars, parseVars, otherVars>>

UiNext ==
    \/ \E value \in TypedInputs : addPublication(value)
    \/ ClearAll

(* ====================================================================== *)
(* Archive entry names: downloadFileWrapperAsZipParallel, the task body   *)
(* ====================================================================== *)
\* the characters document codes and identifiers are made of in the model
NameChars == { "A", "1", ".", "-", "_", " ", "/", "#" }

NoName == [named |-> FALSE]

NameInit ==
    /\ namedDocument \in
          [ doc : [documentCode : SeqsUpTo(NameChars, MaxNameLen),
                   documentIdentifier : SeqsUpTo(NameChars, MaxNameLen)],
            docIndex : 0..1 ]
    /\ entryName = NoName

\* fileName and safeFileName of one successfully fetched document
NameEntry ==
    /\ ~entryName.named
    /\ entryName' = [named |-> TRUE,
                     fileName |-> SafeFileName(FileNameOf(namedDocument.doc,
                                                          namedDocument.docIndex))]
    /\ UNCHANGED namedDocument
    /\ UNCHANGED <<dlVars, tokVars, fetchVars, uiVars, patVars, parseVars, otherVars>>

NameNext == NameEntry

\* the renderer and the naming when they are not being looked at
UiIdle == UiInit
NameIdle ==
    /\ namedDocument = [doc |-> [documentCode |-> <<>>, documentIdentifier |-> <<>>],
                        docIndex |-> 0]
    /\ entryName = NoName

(* ====================================================================== *)
(* One 'download-patent' call: handler, downloadPatentFromEPO             *)
(* ====================================================================== *)
\* the ways /^([A-Z]{2})(\d+)([A-Z]\d?)$/ matches s: <<d, k>> with d the
\* length of group 2 and k the length of group 3 (at most one way)
FormatMatches(s) ==
    { m \in (1..Len(s)) \X {1, 2} :
        /\ Len(s) = 2 + m[1] + m[2]
        /\ s[1] \in UpperLetters /\ s[2] \in UpperLetters
        /\ \A k \in 3..(2 + m[1]) : s[k] \in Digits
        /\ s[2 + m[1] + 1] \in UpperLetters
        /\ m[2] = 2 => s[Len(s)] \in Digits }

\* US10721857B2 -> US.10721857.B2; anything the pattern does not match is
\* returned as it came
formatPublicationNumberForEPO(pn) ==
    IF FormatMatches(pn) = {} THEN pn
    ELSE LET m == CHOOSE x \in FormatMatches(pn) : TRUE
         IN  SubSeq(pn, 1, 2) \o <<".">> \o SubSeq(pn, 3, 2 + m[1]) \o <<".">>
             \o SubSeq(pn, 3 + m[1], Len(pn))

\* the publication numbers that reach the handler in the model: what the
\* renderer would send and what it would have refused
HandlerInputs == TypedInputs \cup { NormalizeInput(v) : v \in TypedInputs }

TokenRequest == [to |-> "token"]
IndexRequest(pn) == [to |-> "index", body |-> formatPublicationNumberForEPO(pn)]
PagesRequest == [to |-> "pages"]

\* the cache holds a token fetched at minute 0
TokCached ==
    /\ globalAccessToken = 1
    /\ globalTokenExpiry = TOKEN_CACHE_MINUTES
    /\ clock = 0
    /\ call = [c \in Callers |-> IdleCall]
    /\ tokenRequests = 1
    /\ tokenStartedAt = << 0 >>
    /\ lastTokenCall = [done |-> FALSE]
    /\ overlapSeen = FALSE

PatentInit ==
    /\ publicationNumber \in HandlerInputs
    /\ downloadType \in {"frontpage", "full"}
    /\ patentPc = "invoked"
    /\ requests = <<>>
    /\ patentResult = NoResult

PatentReturns(r) ==
    /\ patentPc' = "done"
    /\ patentResult' = r

\* the handler's early returns
PatentPreconditionFails(cfg) ==
    /\ patentPc = "invoked"
    /\ cfg # "ok"
    /\ PatentReturns(Failure(PreconditionMessage(cfg)))
    /\ UNCHANGED <<publicationNumber, downloadType, requests>>
    /\ UNCHANGED <<dlVars, tokVars, fetchVars, uiVars, nameVars, parseVars, otherVars>>

\* downloadPatentFromEPO, the token is cached: the document information is
\* requested for the formatted number
PatentInvokeCached ==
    /\ patentPc = "invoked"
    /\ CacheValid(clock)
    /\ requests' = Append(requests, IndexRequest(publicationNumber))
    /\ patentPc' = "index"
    /\ UNCHANGED <<publicationNumber, downloadType, patentResult>>
    /\ UNCHANGED <<dlVars, tokVars, fetchVars, uiVars, nameVars, parseVars, otherVars>>

\* downloadPatentFromEPO, nothing valid cached: the token is requested
PatentInvokeRefresh ==
    /\ patentPc = "invoked"
    /\ ~CacheValid(clock)
    /\ requests' = Append(requests, TokenRequest)
    /\ tokenRequests' = tokenRequests + 1
    /\ tokenStartedAt' = Append(tokenStartedAt, clock)
    /\ patentPc' = "token"
    /\ UNCHANGED <<publicationNumber, downloadType, patentResult>>
    /\ UNCHANGED <<globalAccessToken, globalTokenExpiry, clock, call, lastTokenCall, overlapSeen>>
    /\ UNCHANGED <<dlVars, fetchVars, uiVars, nameVars, parseVars, otherVars>>

\* the token arrives and is cached; the document information is requested
PatentTokenArrives ==
    /\ patentPc = "token"
    /\ globalAccessToken' = tokenRequests
    /\ globalTokenExpiry' = clock + TOKEN_CACHE_MINUTES
    /\ requests' = Append(requests, IndexRequest(publicationNumber))
    /\ patentPc' = "index"
    /\ UNCHANGED <<publicationNumber, downloadType, patentResult>>
    /\ UNCHANGED <<clock, call, tokenRequests, tokenStartedAt, lastTokenCall, overlapSeen>>
    /\ UNCHANGED <<dlVars, fetchVars, uiVars, nameVars, parseVars, otherVars>>

\* getEPOAccessToken rejects: caught by downloadPatentFromEPO
PatentTokenFails(why) ==
    /\ patentPc = "token"
    /\ PatentReturns(Failure(why))
    /\ UNCHANGED <<publicationNumber, downloadType, requests>>
    /\ UNCHANGED <<dlVars, tokVars, fetchVars, uiVars, nameVars, parseVars, otherVars>>

\* getEPODocumentInfo settles; on success downloadEPODocument starts fetching
PatentIndexResponse(ok) ==
    /\ patentPc = "index"
    /\ IF ok
       THEN /\ requests' = Append(requests, PagesRequest)
            /\ patentPc' = "download"
            /\ UNCHANGED patentResult
       ELSE /\ PatentReturns(Failure("Failed to get document info"))
            /\ UNCHANGED requests
    /\ UNCHANGED <<publicationNumber, downloadType>>
    /\ UNCHANGED <<dlVars, tokVars, fetchVars, uiVars, nameVars, parseVars, otherVars>>

\* downloadEPODocument returns its result or throws
PatentDownloadEnds(ok) ==
    /\ patentPc = "download"
    /\ PatentReturns(IF ok THEN Success("Downloaded") ELSE Failure("download"))
    /\ UNCHANGED <<publicationNumber, downloadType, requests>>
    /\ UNCHANGED <<dlVars, tokVars, fetchVars, uiVars, nameVars, parseVars, otherVars>>

PatentNext ==
    \/ \E cfg \in Configurations : PatentPreconditionFails(cfg)
    \/ PatentInvokeCached
    \/ PatentInvokeRefresh
    \/ PatentTokenArrives
    \/ \E why \in TokenFailures : PatentTokenFails(why)
    \/ \E ok \in BOOLEAN : PatentIndexResponse(ok)
    \/ \E ok \in BOOLEAN : PatentDownloadEnds(ok)

(* ====================================================================== *)
(* parseDocumentInstances: the locator picked from a document-index answer *)
(* ====================================================================== *)
\* String.prototype.match on one tag: null, or the captured attribute value
NoMatch == [found |-> FALSE]
Match(value) == [found |-> TRUE, value |-> value]

Descriptions == { "FullDocument", "Drawing" }
PageTexts == { <<"1", "2">> }
Links == { "a", "b" }

\* what instanceRegex.exec finds, one after the other: each tag is given by
\* what the three attribute patterns match in it
InstanceTags ==
    [ desc  : { NoMatch } \cup { Match(d) : d \in Descriptions },
      pages : { NoMatch } \cup { Match(p) : p \in PageTexts },
      link  : { NoMatch } \cup { Match(l) : l \in Links } ]

DigitValue(c) == CHOOSE n \in 0..9 : DecimalDigits(n) = << c >>

\* parseInt of a run of decimal digits
RECURSIVE ParseInt(_)
ParseInt(text) ==
    IF Len(text) = 1 THEN DigitValue(text[1])
    ELSE 10 * ParseInt(SubSeq(text, 1, Len(text) - 1)) + DigitValue(text[Len(text)])

\* the while loop: a tag with all three attributes is pushed, any other skipped
RECURSIVE Instances(_)
Instances(tags) ==
    IF tags = <<>> THEN <<>>
    ELSE LET instanceTag == Head(tags)
         IN  (IF instanceTag.desc.found /\ instanceTag.pages.found /\ instanceTag.link.found
              THEN << [desc          |-> instanceTag.desc.value,
                       numberOfPages |-> ParseInt(instanceTag.pages.value),
                       link          |-> instanceTag.link.value] >>
              ELSE <<>>)
             \o Instances(Tail(tags))

FindNothing(instances) == NoMatch

\* instances.find(inst => inst.desc === 'FullDocument')
FindFullDocument(instances) ==
    LET hits == { k \in 1..Len(instances) : instances[k].desc = "FullDocument" }
    IN  IF hits = {} THEN NoMatch
        ELSE Match(instances[CHOOSE k \in hits : \A h \in hits : k <= h])

NotParsed == [state |-> "pending"]
Thrown(message) == [state |-> "thrown", message |-> message]
Returned(instance) == [state |-> "returned", value |-> instance]

parseDocumentInstances(xml) ==
    LET instances == Instances(xml)
        selectedInstance == FindFullDocument(instances)
    IN  IF Len(instances) = 0
        THEN Thrown("No <ops:document-instance> elements found in XML response")
        ELSE IF selectedInstance.found THEN Returned(selectedInstance.value)
        ELSE Returned(instances[1])

ParseInit ==
    /\ xmlData \in SeqsUpTo(InstanceTags, MaxTags)
    /\ documentInfo = NotParsed

\* getEPODocumentInfo: the 'end' callback of a 200 answer
ParseResponse ==
    /\ documentInfo = NotParsed
    /\ documentInfo' = parseDocumentInstances(xmlData)
    /\ UNCHANGED xmlData
    /\ UNCHANGED <<dlVars, tokVars, fetchVars, uiVars, nameVars, patVars, otherVars>>

ParseNext == ParseResponse

\* no document-index answer being looked at
ParseIdle ==
    /\ xmlData = <<>>
    /\ documentInfo = NotParsed

(* ====================================================================== *)
(* downloadAllPages: the scratch directory of overlapping runs            *)
(* ====================================================================== *)
\* two 'download-patent' invocations writing to the same target directory
Runs == { "a", "b" }

NotRunning == [pc |-> "idle", tempDir |-> 0]
Active(r) == run[r].pc \in {"fetching", "merging", "cleanup"}

\* the page files in a directory
FilesIn(dir) == { f \in scratch : f.dir = dir }

ScratchInit ==
    /\ dateNow = 0
    /\ run = [r \in Runs |-> NotRunning]
    /\ scratch = {}

\* const tempDir = path.join(path.dirname(filePath), 'temp_' + Date.now());
\* mkdir(tempDir, { recursive: true }) succeeds when the directory exists
MakeTempDir(r) ==
    /\ run[r].pc = "idle"
    /\ run' = [run EXCEPT ![r] = [pc |-> "fetching", tempDir |-> dateNow]]
    /\ UNCHANGED <<dateNow, scratch>>
    /\ UNCHANGED <<dlVars, tokVars, fetchVars, uiVars, nameVars, patVars, parseVars, appVars, credVars, viewVars, wrapVars, hdlVars, loopVars>>

\* downloadSinglePage writes page_1.pdf into tempDir, replacing a file of
\* that name
WritePageFile(r) ==
    /\ run[r].pc = "fetching"
    /\ scratch' = { f \in scratch : f.dir # run[r].tempDir }
                     \cup { [dir |-> run[r].tempDir, pageNum |-> 1, writer |-> r] }
    /\ run' = [run EXCEPT ![r].pc = "merging"]
    /\ UNCHANGED dateNow
    /\ UNCHANGED <<dlVars, tokVars, fetchVars, uiVars, nameVars, patVars, parseVars, appVars, credVars, viewVars, wrapVars, hdlVars, loopVars>>

\* the merge loop reads the page files; the merged output is written
MergeScratch(r) ==
    /\ run[r].pc = "merging"
    /\ run' = [run EXCEPT ![r] =
                  [pc |-> "cleanup", tempDir |-> run[r].tempDir,
                   merged |-> { f.writer : f \in FilesIn(run[r].tempDir) }]]
    /\ UNCHANGED <<dateNow, scratch>>
    /\ UNCHANGED <<dlVars, tokVars, fetchVars, uiVars, nameVars, patVars, parseVars, appVars, credVars, viewVars, wrapVars, hdlVars, loopVars>>

\* fs.promises.rm(tempDir, { recursive: true, force: true })
RemoveTempDir(r) ==
    /\ run[r].pc = "cleanup"
    /\ scratch' = scratch \ FilesIn(run[r].tempDir)
    /\ run' = [run EXCEPT ![r].pc = "done"]
    /\ UNCHANGED dateNow
    /\ UNCHANGED <<dlVars, tokVars, fetchVars, uiVars, nameVars, patVars, parseVars, appVars, credVars, viewVars, wrapVars, hdlVars, loopVars>>

\* a millisecond passes
Millisecond ==
    /\ dateNow < MaxMillis
    /\ dateNow' = dateNow + 1
    /\ UNCHANGED <<run, scratch>>
    /\ UNCHANGED <<dlVars, tokVars, fetchVars, uiVars, nameVars, patVars, parseVars, appVars, credVars, viewVars, wrapVars, hdlVars, loopVars>>

ScratchNext ==
    \/ \E r \in Runs : MakeTempDir(r)
    \/ \E r \in Runs : WritePageFile(r)
    \/ \E r \in Runs : MergeScratch(r)
    \/ \E r \in Runs : RemoveTempDir(r)
    \/ Millisecond

\* no downloadAllPages runs being looked at
ScratchIdle ==
    /\ dateNow = 0
    /\ run = [r \in Runs |-> [pc |-> "done", tempDir |-> 0]]
    /\ scratch = {}

(* ====================================================================== *)
(* 'fetch-file-wrapper-documents': the application number in the path     *)
(* ====================================================================== *)
\* padStart(8, '0')
APP_NUMBER_DIGITS == 8

\* the characters application numbers are typed with in the model
AppChars == { "0", "7", "/" }

IsDigit(c) == c \in Digits

\* applicationNumber.replace(/\D/g, '')
RemoveNonDigits(text) == SelectSeq(text, IsDigit)

\* String.prototype.padStart: a string of targetLength or more is returned
\* as it is
PadStart(text, targetLength, padString) ==
    IF Len(text) >= targetLength THEN text
    ELSE [k \in 1..(targetLength - Len(text)) |-> padString] \o text

formattedAppNum(appNumber) ==
    PadStart(RemoveNonDigits(appNumber), APP_NUMBER_DIGITS, "0")

NoListRequest == [sent |-> FALSE]

\* the renderer sends applicationInput.value.trim() when it is not empty
AppInit ==
    /\ applicationNumber \in SeqsUpTo(AppChars, MaxAppLen) \ { <<>> }
    /\ listRequest = NoListRequest

\* the handler formats the number and fetchUsptoFileWrapperDocuments puts it
\* into the path of the GET request
FetchDocumentList ==
    /\ ~listRequest.sent
    /\ listRequest' = [sent |-> TRUE, applicationNumber |-> formattedAppNum(applicationNumber)]
    /\ UNCHANGED applicationNumber
    /\ UNCHANGED <<dlVars, tokVars, fetchVars, uiVars, nameVars, patVars, parseVars, scratchVars, credVars, viewVars, wrapVars, hdlVars, loopVars>>

AppNext == FetchDocumentList

\* no 'fetch-file-wrapper-documents' call being looked at
AppIdle ==
    /\ applicationNumber = <<>>
    /\ listRequest = NoListRequest

(* ====================================================================== *)
(* The token cache and the stored credentials                             *)
(* ====================================================================== *)
\* the key/secret pairs the user stores, one after the other
KeyPairs == { "old", "new" }

NoTokenCall == [pc |-> "idle"]
NothingHandedOut == [returned |-> FALSE]

CredInit ==
    /\ apiKeys \in KeyPairs
    /\ tokenCall = NoTokenCall
    /\ issuedFor = <<>>
    /\ handedOut = NothingHandedOut

\* 'save-api-keys': the configuration file is rewritten; the cache is not
\* touched
SaveApiKeys(keys) ==
    /\ keys # apiKeys
    /\ apiKeys' = keys
    /\ UNCHANGED <<tokenCall, issuedFor, handedOut>>
    /\ UNCHANGED <<dlVars, tokVars, fetchVars, uiVars, nameVars, patVars, parseVars, scratchVars, appVars, viewVars, wrapVars, hdlVars, loopVars>>

\* 'download-patent' loads the stored keys and calls
\* getEPOAccessTokenWithCache(clientKey, clientSecret): the cache is valid
GetTokenCached ==
    /\ tokenCall.pc = "idle"
    /\ CacheValid(clock)
    /\ handedOut' = [returned |-> TRUE, token |-> globalAccessToken, keys |-> apiKeys,
                     cached |-> TRUE]
    /\ UNCHANGED <<apiKeys, tokenCall, issuedFor>>
    /\ UNCHANGED <<dlVars, tokVars, fetchVars, uiVars, nameVars, patVars, parseVars, scratchVars, appVars, viewVars, wrapVars, hdlVars, loopVars>>

\* the same with nothing valid cached: getEPOAccessToken(clientKey,
\* clientSecret) sends the request
GetTokenRefresh ==
    /\ tokenCall.pc = "idle"
    /\ ~CacheValid(clock)
    /\ tokenRequests < MaxTokenRequests
    /\ tokenRequests' = tokenRequests + 1
    /\ tokenStartedAt' = Append(tokenStartedAt, clock)
    /\ issuedFor' = Append(issuedFor, apiKeys)
    /\ tokenCall' = [pc |-> "token", now |-> clock, keys |-> apiKeys,
                     request |-> tokenRequests + 1]
    /\ UNCHANGED <<apiKeys, handedOut>>
    /\ UNCHANGED <<globalAccessToken, globalTokenExpiry, clock, call, lastTokenCall, overlapSeen>>
    /\ UNCHANGED <<dlVars, fetchVars, uiVars, nameVars, patVars, parseVars, scratchVars, appVars, viewVars, wrapVars, hdlVars, loopVars>>

\* the token arrives, is cached and returned
GetTokenArrives ==
    /\ tokenCall.pc = "token"
    /\ globalAccessToken' = tokenCall.request
    /\ globalTokenExpiry' = tokenCall.now + TOKEN_CACHE_MINUTES
    /\ handedOut' = [returned |-> TRUE, token |-> tokenCall.request, keys |-> tokenCall.keys,
                     cached |-> FALSE]
    /\ tokenCall' = NoTokenCall
    /\ UNCHANGED <<apiKeys, issuedFor>>
    /\ UNCHANGED <<clock, call, tokenRequests, tokenStartedAt, lastTokenCall, overlapSeen>>
    /\ UNCHANGED <<dlVars, fetchVars, uiVars, nameVars, patVars, parseVars, scratchVars, appVars, viewVars, wrapVars, hdlVars, loopVars>>

\* getEPOAccessToken rejects: nothing is cached or returned
GetTokenFails ==
    /\ tokenCall.pc = "token"
    /\ tokenCall' = NoTokenCall
    /\ UNCHANGED <<apiKeys, issuedFor, handedOut>>
    /\ UNCHANGED <<dlVars, tokVars, fetchVars, uiVars, nameVars, patVars, parseVars, scratchVars, appVars, viewVars, wrapVars, hdlVars, loopVars>>

\* time passes
CredTick ==
    /\ clock + TickMinutes <= MaxClockTicks * TickMinutes
    /\ clock' = clock + TickMinutes
    /\ UNCHANGED <<globalAccessToken, globalTokenExpiry, call, tokenRequests, tokenStartedAt,
                   lastTokenCall, overlapSeen>>
    /\ UNCHANGED credVars
    /\ UNCHANGED <<dlVars, fetchVars, uiVars, nameVars, patVars, parseVars, scratchVars, appVars, viewVars, wrapVars, hdlVars, loopVars>>

CredNext ==
    \/ \E keys \in KeyPairs : SaveApiKeys(keys)
    \/ GetTokenCached
    \/ GetTokenRefresh
    \/ GetTokenArrives
    \/ GetTokenFails
    \/ CredTick

\* no credentials being looked at
CredIdle ==
    /\ apiKeys = "old"
    /\ tokenCall = NoTokenCall
    /\ issuedFor = <<>>
    /\ handedOut = NothingHandedOut

(* ====================================================================== *)
(* The download view: remove, download                                    *)
(* ====================================================================== *)
\* what the user types while the download view is watched
ViewInputs ==
    { <<"U", "S", "1", "1", "1", "1", "A">>,
      <<"e", "p", "1", "1", "1", "1", "b", "2">>,
      <<" ", "U", "S", "1", "1", "1", "1", "A", " ">>,
      <<"X", "X", "1", "1", "1", "1", "A">>,
      <<>> }

\* the sequence without the elements equal to x
RECURSIVE Without(_, _)
Without(items, x) ==
    IF items = <<>> THEN <<>>
    ELSE (IF Head(items) = x THEN <<>> ELSE << Head(items) >>) \o Without(Tail(items), x)

ViewInit ==
    /\ runs = <<>>
    /\ runsStarted = 0
    /\ requested = <<>>
    /\ progressItems = {}

\* the Remove button of a displayed item: the element is taken out of the
\* page, the count and the button follow the page; publicationsList is not
\* touched
removePublication(pubNumber) ==
    /\ Contains(publicationItems, pubNumber)
    /\ publicationItems' = Without(publicationItems, pubNumber)
    /\ publicationsCount' = Len(publicationItems')
    /\ downloadButtonDisabled' = (Len(publicationItems') = 0)
    /\ UNCHANGED <<publicationInput, publicationsList, lastAdd>>
    /\ UNCHANGED viewVars
    /\ UNCHANGED <<dlVars, tokVars, fetchVars, nameVars, patVars, parseVars,
                   scratchVars, appVars, credVars, wrapVars, hdlVars, loopVars>>

\* the indexes from `from` on whose publication has an element in the
\* progress list: the loop body does nothing for the others
Awaited(list, from, items) ==
    { j \in from..(Len(list) - 1) : list[j + 1] \in items }

\* the download button is clicked: downloadPublications appends a progress
\* element per publication, disables the button and awaits the download of
\* publicationsList[0]
downloadPublications ==
    /\ ~downloadButtonDisabled
    /\ Len(publicationsList) # 0
    /\ runsStarted < MaxRuns
    /\ runsStarted' = runsStarted + 1
    /\ downloadButtonDisabled' = TRUE
    /\ progressItems' = progressItems \cup { publicationsList[j] : j \in 1..Len(publicationsList) }
    /\ runs' = Append(runs, 0)
    /\ requested' = Append(requested, publicationsList[1])
    /\ UNCHANGED <<publicationInput, publicationsList, lastAdd, publicationItems,
                   publicationsCount>>
    /\ UNCHANGED <<dlVars, tokVars, fetchVars, nameVars, patVars, parseVars,
                   scratchVars, appVars, credVars, wrapVars, hdlVars, loopVars>>

\* the awaited downloadPatent call of run k settles, with a result or an
\* exception: the loop goes on with the list as it is now, or the finally
\* block enables the button
DownloadSettles(k) ==
    /\ k \in 1..Len(runs)
    /\ LET rest == Awaited(publicationsList, runs[k] + 1, progressItems)
       IN  IF rest # {}
           THEN /\ \E index \in rest :
                     /\ \A j \in rest : index <= j
                     /\ runs' = [runs EXCEPT ![k] = index]
                     /\ requested' = Append(requested, publicationsList[index + 1])
                /\ UNCHANGED downloadButtonDisabled
           ELSE /\ runs' = SubSeq(runs, 1, k - 1) \o SubSeq(runs, k + 1, Len(runs))
                /\ downloadButtonDisabled' = FALSE
                /\ UNCHANGED requested
    /\ UNCHANGED <<publicationInput, publicationsList, lastAdd, publicationItems,
                   publicationsCount, runsStarted, progressItems>>
    /\ UNCHANGED <<dlVars, tokVars, fetchVars, nameVars, patVars, parseVars,
                   scratchVars, appVars, credVars, wrapVars, hdlVars, loopVars>>

ViewNext ==
    \/ \E value \in ViewInputs : addPublication(value)
    \/ ClearAll
    \/ \E pubNumber \in { NormalizeInput(v) : v \in ViewInputs } : removePublication(pubNumber)
    \/ downloadPublications
    \/ \E k \in 1..MaxRuns : DownloadSettles(k)

\* no download view being looked at
ViewIdle ==
    /\ runs = <<>>
    /\ runsStarted = 0
    /\ requested = <<>>
    /\ progressItems = {}

\* no 'download-patent' call being looked at
PatentIdle ==
    /\ publicationNumber = <<>>
    /\ downloadType = "full"
    /\ patentPc = "done"
    /\ requests = <<>>
    /\ patentResult = NoResult

(* ====================================================================== *)
(* The file-wrapper view: list, select, download                          *)
(* ====================================================================== *)
Undefined == <<>>

\* the downloadOptionBag of a listed document: the mime types of its options
OptionBags == { <<>>, <<"XML">>, <<"PDF">>, <<"XML", "PDF">> }

DocumentBags ==
    UNION { [1..n -> OptionBags] : n \in 0..MaxListed }

\* the downloadUrl of the first PDF option of document k, if there is one
processUsptoResponse(documentBag) ==
    [k \in 1..Len(documentBag) |->
        LET pdfOptions == { o \in 1..Len(documentBag[k]) : documentBag[k][o] = "PDF" }
        IN  [documentIdentifier |-> k,
             downloadUrl |-> IF pdfOptions = {} THEN Undefined
                             ELSE << k, CHOOSE o \in pdfOptions : \A q \in pdfOptions : o <= q >>]]

NoWrapperRequest == [sent |-> FALSE]

WrapInit ==
    /\ documentsData = <<>>
    /\ checkboxes = <<>>
    /\ wrapperRequest = NoWrapperRequest

\* one unchecked checkbox per document, disabled when it has no downloadUrl
populateFileWrapperDocuments(data) ==
    [k \in 1..Len(data) |-> [disabled |-> data[k].downloadUrl = Undefined, checked |-> FALSE]]

\* the Fetch button, answered with a document list
fetchFileWrapperDocuments(documentBag) ==
    /\ documentsData' = processUsptoResponse(documentBag)
    /\ checkboxes' = populateFileWrapperDocuments(documentsData')
    /\ UNCHANGED wrapperRequest
    /\ UNCHANGED <<dlVars, tokVars, fetchVars, uiVars, nameVars, patVars, parseVars, scratchVars, appVars, credVars, viewVars, hdlVars, loopVars>>

\* the Fetch button, answered with a failure: the list is replaced by the
\* message, documentsData stays
FetchDocumentsFails ==
    /\ checkboxes' = <<>>
    /\ UNCHANGED <<documentsData, wrapperRequest>>
    /\ UNCHANGED <<dlVars, tokVars, fetchVars, uiVars, nameVars, patVars, parseVars, scratchVars, appVars, credVars, viewVars, hdlVars, loopVars>>

\* a click on a document item or on its checkbox: a disabled checkbox
\* does not react
ClickCheckbox(k) ==
    /\ k \in 1..Len(checkboxes)
    /\ ~checkboxes[k].disabled
    /\ checkboxes' = [checkboxes EXCEPT ![k].checked = ~checkboxes[k].checked]
    /\ UNCHANGED <<documentsData, wrapperRequest>>
    /\ UNCHANGED <<dlVars, tokVars, fetchVars, uiVars, nameVars, patVars, parseVars, scratchVars, appVars, credVars, viewVars, hdlVars, loopVars>>

\* the Select All button: checked = true on every .document-checkbox
SelectAllDocuments ==
    /\ checkboxes' = [k \in 1..Len(checkboxes) |-> [checkboxes[k] EXCEPT !.checked = TRUE]]
    /\ UNCHANGED <<documentsData, wrapperRequest>>
    /\ UNCHANGED <<dlVars, tokVars, fetchVars, uiVars, nameVars, patVars, parseVars, scratchVars, appVars, credVars, viewVars, hdlVars, loopVars>>

\* the Clear All button of the file-wrapper view
ClearAllDocuments ==
    /\ checkboxes' = [k \in 1..Len(checkboxes) |-> [checkboxes[k] EXCEPT !.checked = FALSE]]
    /\ UNCHANGED <<documentsData, wrapperRequest>>
    /\ UNCHANGED <<dlVars, tokVars, fetchVars, uiVars, nameVars, patVars, parseVars, scratchVars, appVars, credVars, viewVars, hdlVars, loopVars>>

\* the documents of the checked checkboxes, in the order of the page
SelectedDocuments ==
    LET IsChecked(k) == checkboxes[k].checked
        indexes == SelectSeq([k \in 1..Len(checkboxes) |-> k], IsChecked)
    IN  [j \in 1..Len(indexes) |-> documentsData[indexes[j]]]

\* the Download Selected button
downloadSelectedFileWrapperDocuments ==
    /\ SelectedDocuments # <<>>
    /\ wrapperRequest' = [sent |-> TRUE, documents |-> SelectedDocuments]
    /\ UNCHANGED <<documentsData, checkboxes>>
    /\ UNCHANGED <<dlVars, tokVars, fetchVars, uiVars, nameVars, patVars, parseVars, scratchVars, appVars, credVars, viewVars, hdlVars, loopVars>>

WrapNext ==
    \/ \E documentBag \in DocumentBags : fetchFileWrapperDocuments(documentBag)
    \/ FetchDocumentsFails
    \/ \E k \in 1..MaxListed : ClickCheckbox(k)
    \/ SelectAllDocuments
    \/ ClearAllDocuments
    \/ downloadSelectedFileWrapperDocuments

\* no file-wrapper view being looked at
WrapIdle ==
    /\ documentsData = <<>>
    /\ checkboxes = <<>>
    /\ wrapperRequest = NoWrapperRequest

(* ====================================================================== *)
(* The IPC handlers: preconditions before the first network request       *)
(* ====================================================================== *)
Handlers == { "download-patent", "fetch-file-wrapper-documents",
              "download-file-wrapper-documents" }

\* options.format of 'download-file-wrapper-documents'
Formats == { "zip", "merged", "other" }

\* the results of loadDownloadSettingsSync and loadApiKeysSync: whether the
\* file could be read, whether a value is non-empty, the length of the
\* USPTO key
StoredConfigs ==
    [settingsLoaded : BOOLEAN, downloadDirectory : BOOLEAN,
     keysLoaded : BOOLEAN, espacenetConsumerKey : BOOLEAN, espacenetSecretKey : BOOLEAN,
     usptoApiKey : { 0, API_KEY_MIN_LENGTH - 1, API_KEY_MIN_LENGTH }]

\* a key the length check finds nothing wrong with
NeverTooShort(length) == FALSE

\* usptoApiKey.length < 10
TooShort(length) == length < API_KEY_MIN_LENGTH

\* the checks of 'download-patent', in the order of the code
DownloadPatentCheck(cfg) ==
    IF ~cfg.settingsLoaded THEN "settingsUnreadable"
    ELSE IF ~cfg.keysLoaded THEN "keysUnreadable"
    ELSE IF ~cfg.downloadDirectory THEN "noDirectory"
    ELSE IF ~cfg.espacenetConsumerKey \/ ~cfg.espacenetSecretKey THEN "noKeys"
    ELSE "ok"

\* the checks of 'fetch-file-wrapper-documents'
FetchDocumentsCheck(cfg) ==
    IF ~cfg.keysLoaded \/ cfg.usptoApiKey = 0
    THEN "USPTO API key not configured. Please set it in Settings."
    ELSE IF TooShort(cfg.usptoApiKey)
    THEN "USPTO API key appears to be invalid (too short). Please check your key in Settings."
    ELSE "ok"

\* the checks of 'download-file-wrapper-documents'
DownloadDocumentsCheck(cfg) ==
    IF ~cfg.keysLoaded \/ cfg.usptoApiKey = 0
    THEN "USPTO API key not configured. Please set it in Settings."
    ELSE IF ~cfg.settingsLoaded \/ ~cfg.downloadDirectory
    THEN "Download directory not configured. Please set it in Settings."
    ELSE "ok"

\* the message of the early return of a handler, or "ok"
HandlerCheck(handler, cfg) ==
    CASE handler = "download-patent" ->
            IF DownloadPatentCheck(cfg) = "ok" THEN "ok"
            ELSE PreconditionMessage(DownloadPatentCheck(cfg))
      [] handler = "fetch-file-wrapper-documents" -> FetchDocumentsCheck(cfg)
      [] handler = "download-file-wrapper-documents" -> DownloadDocumentsCheck(cfg)

NoInvocation == [pc |-> "idle"]

HdlInit ==
    /\ storedConfig \in StoredConfigs
    /\ ipc = NoInvocation
    /\ callsMade = 0
    /\ network = <<>>
    /\ ipcResult = NoResult

Invoked(handler) ==
    /\ ipc.pc \in { "idle", "returned" }
    /\ callsMade < MaxCalls
    /\ callsMade' = callsMade + 1

\* a handler returns at one of its checks
HandlerRefuses(handler) ==
    /\ Invoked(handler)
    /\ HandlerCheck(handler, storedConfig) # "ok"
    /\ ipc' = [pc |-> "returned", handler |-> handler]
    /\ ipcResult' = Failure(HandlerCheck(handler, storedConfig))
    /\ UNCHANGED <<storedConfig, network>>
    /\ UNCHANGED <<dlVars, tokVars, fetchVars, uiVars, nameVars, patVars, parseVars, scratchVars, appVars, credVars, viewVars, wrapVars, loopVars>>

\* 'download-patent' passes its checks; the cached token is used and the
\* document information is requested, or a token is requested
DownloadPatentProceeds ==
    /\ Invoked("download-patent")
    /\ HandlerCheck("download-patent", storedConfig) = "ok"
    /\ IF CacheValid(clock)
       THEN /\ ipc' = [pc |-> "answer", handler |-> "download-patent"]
            /\ network' = Append(network, "index")
            /\ UNCHANGED <<tokenRequests, tokenStartedAt>>
       ELSE /\ ipc' = [pc |-> "token", handler |-> "download-patent"]
            /\ network' = Append(network, "token")
            /\ tokenRequests' = tokenRequests + 1
            /\ tokenStartedAt' = Append(tokenStartedAt, clock)
    /\ UNCHANGED <<storedConfig, ipcResult>>
    /\ UNCHANGED <<globalAccessToken, globalTokenExpiry, clock, call, lastTokenCall, overlapSeen>>
    /\ UNCHANGED <<dlVars, fetchVars, uiVars, nameVars, patVars, parseVars, scratchVars, appVars, credVars, viewVars, wrapVars, loopVars>>

\* the token arrives and is cached; the document information is requested
HandlerTokenArrives ==
    /\ ipc.pc = "token"
    /\ globalAccessToken' = tokenRequests
    /\ globalTokenExpiry' = clock + TOKEN_CACHE_MINUTES
    /\ network' = Append(network, "index")
    /\ ipc' = [ipc EXCEPT !.pc = "answer"]
    /\ UNCHANGED <<storedConfig, callsMade, ipcResult>>
    /\ UNCHANGED <<clock, call, tokenRequests, tokenStartedAt, lastTokenCall, overlapSeen>>
    /\ UNCHANGED <<dlVars, fetchVars, uiVars, nameVars, patVars, parseVars, scratchVars, appVars, credVars, viewVars, wrapVars, loopVars>>

\* 'fetch-file-wrapper-documents' passes its checks and requests the list
FetchDocumentsProceeds ==
    /\ Invoked("fetch-file-wrapper-documents")
    /\ HandlerCheck("fetch-file-wrapper-documents", storedConfig) = "ok"
    /\ ipc' = [pc |-> "answer", handler |-> "fetch-file-wrapper-documents"]
    /\ network' = Append(network, "documents")
    /\ UNCHANGED <<storedConfig, ipcResult>>
    /\ UNCHANGED <<dlVars, tokVars, fetchVars, uiVars, nameVars, patVars, parseVars, scratchVars, appVars, credVars, viewVars, wrapVars, loopVars>>

\* 'download-file-wrapper-documents' passes its checks: the documents are
\* requested, or the format is not one of the two
DownloadDocumentsProceeds(format) ==
    /\ Invoked("download-file-wrapper-documents")
    /\ HandlerCheck("download-file-wrapper-documents", storedConfig) = "ok"
    /\ IF format \in { "zip", "merged" }
       THEN /\ ipc' = [pc |-> "answer", handler |-> "download-file-wrapper-documents"]
            /\ network' = Append(network, "download")
            /\ UNCHANGED ipcResult
       ELSE /\ ipc' = [pc |-> "returned", handler |-> "download-file-wrapper-documents"]
            /\ ipcResult' = Failure("Invalid download format specified")
            /\ UNCHANGED network
    /\ UNCHANGED storedConfig
    /\ UNCHANGED <<dlVars, tokVars, fetchVars, uiVars, nameVars, patVars, parseVars, scratchVars, appVars, credVars, viewVars, wrapVars, loopVars>>

\* the network part of a handler ends: the token request is rejected, or
\* the awaited function returns or throws, and the handler returns
HandlerSettles(ok) ==
    /\ ipc.pc \in { "token", "answer" }
    /\ ipc.pc = "token" => ~ok
    /\ ipc' = [ipc EXCEPT !.pc = "returned"]
    /\ ipcResult' = IF ok THEN SuccessNoMessage ELSE Failure("failed")
    /\ UNCHANGED <<storedConfig, callsMade, network>>
    /\ UNCHANGED <<dlVars, tokVars, fetchVars, uiVars, nameVars, patVars, parseVars, scratchVars, appVars, credVars, viewVars, wrapVars, loopVars>>

HdlNext ==
    \/ \E handler \in Handlers : HandlerRefuses(handler)
    \/ DownloadPatentProceeds
    \/ HandlerTokenArrives
    \/ FetchDocumentsProceeds
    \/ \E format \in Formats : DownloadDocumentsProceeds(format)
    \/ \E ok \in BOOLEAN : HandlerSettles(ok)

\* no handler invocation being looked at
HdlIdle ==
    /\ storedConfig = [settingsLoaded |-> TRUE, downloadDirectory |-> TRUE,
                       keysLoaded |-> TRUE, espacenetConsumerKey |-> TRUE,
                       espacenetSecretKey |-> TRUE, usptoApiKey |-> API_KEY_MIN_LENGTH]
    /\ ipc = NoInvocation
    /\ callsMade = 0
    /\ network = <<>>
    /\ ipcResult = NoResult

(* ====================================================================== *)
(* The batch loop of downloadAllPages for any reported page count         *)
(* ====================================================================== *)
\* a JavaScript number: NaN, or an integer
NaN == [nan |-> TRUE, value |-> 0]
Num(n) == [nan |-> FALSE, value |-> n]

\* a comparison that takes NaN for smaller than anything
LessThanOrUnordered(a, b) == a.nan \/ b.nan \/ a.value < b.value

\* a < b: false when either side is NaN
LessThan(a, b) == ~a.nan /\ ~b.nan /\ a.value < b.value

\* Math.min: NaN when either argument is NaN
MathMin(a, b) == IF a.nan \/ b.nan THEN NaN ELSE Num(Min(a.value, b.value))

\* a + b
Plus(a, b) == IF a.nan \/ b.nan THEN NaN ELSE Num(a.value + b.value)

\* the attribute values the locator may carry
PageCountTexts ==
    { <<>>, <<"x">>, <<"-">>, <<"1", "x">>, <<"0">>, <<"0", "0">>, <<"-", "1">>,
      <<"-", "9">>, <<"1">>, <<"7">>, <<"8">>, <<"9">>, <<"1", "6">>, <<"1", "7">> }

\* the longest prefix of text made of decimal digits
RECURSIVE LeadingDigits(_)
LeadingDigits(text) ==
    IF text = <<>> \/ ~(\E n \in 0..9 : DecimalDigits(n) = << Head(text) >>) THEN <<>>
    ELSE << Head(text) >> \o LeadingDigits(Tail(text))

\* parseInt(text): an optional sign, then the leading digits; NaN without one
parseInt(text) ==
    LET negative == text # <<>> /\ Head(text) = "-"
        digits == LeadingDigits(IF negative THEN Tail(text) ELSE text)
    IN  IF digits = <<>> THEN NaN
        ELSE Num((IF negative THEN -1 ELSE 1) * ParseInt(digits))

\* documentInfo.numberOfPages as downloadAllPages receives it
ReportedPages == parseInt(pagesText)

\* MAX_CONCURRENT_DOWNLOADS = Math.min(numberOfPages, 8)
BatchStep == MathMin(ReportedPages, Num(PAGE_CONCURRENCY_LIMIT))

\* the pages i + 1 .. batchEnd the inner loop creates a task for
TasksOfBatch(index) ==
    LET batchEnd == MathMin(Plus(index, BatchStep), ReportedPages)
    IN  IF index.nan \/ batchEnd.nan THEN {} ELSE (index.value + 1)..batchEnd.value

LoopNotEnded == [over |-> FALSE, written |-> FALSE]
LoopEnded(r, written) == [over |-> TRUE, written |-> written, result |-> r]

LoopInit ==
    /\ pagesText \in PageCountTexts
    /\ loopPc = "start"
    /\ loopIndex = Num(0)
    /\ tasksCreated = 0
    /\ pagesFetched = 0
    /\ loopOutcome = LoopNotEnded

\* downloadAllPages up to the loop: the temp directory is made, or mkdir
\* throws
EnterLoop(mkdirOk) ==
    /\ loopPc = "start"
    /\ IF mkdirOk
       THEN loopPc' = "loop" /\ UNCHANGED loopOutcome
       ELSE loopPc' = "done" /\ loopOutcome' = LoopEnded(Failure("mkdir"), FALSE)
    /\ UNCHANGED <<pagesText, loopIndex, tasksCreated, pagesFetched>>
    /\ UNCHANGED <<dlVars, tokVars, fetchVars, uiVars, nameVars, patVars, parseVars, scratchVars, appVars, credVars, viewVars, wrapVars, hdlVars>>

\* one iteration: the tasks of the batch are created and awaited, fetched
\* of them succeed, and i += BatchStep
LoopIteration(fetched) ==
    /\ loopPc = "loop"
    /\ LessThan(loopIndex, ReportedPages)
    /\ fetched \in 0..Cardinality(TasksOfBatch(loopIndex))
    /\ tasksCreated' = tasksCreated + Cardinality(TasksOfBatch(loopIndex))
    /\ pagesFetched' = pagesFetched + fetched
    /\ loopIndex' = Plus(loopIndex, BatchStep)
    /\ UNCHANGED <<pagesText, loopPc, loopOutcome>>
    /\ UNCHANGED <<dlVars, tokVars, fetchVars, uiVars, nameVars, patVars, parseVars, scratchVars, appVars, credVars, viewVars, wrapVars, hdlVars>>

\* the loop condition is false: without a fetched page the function throws,
\* otherwise the pages are merged and filePath is written or the write throws
LoopExit(writeOk) ==
    /\ loopPc = "loop"
    /\ ~LessThan(loopIndex, ReportedPages)
    /\ loopPc' = "done"
    /\ loopOutcome' =
          IF pagesFetched = 0
          THEN LoopEnded(Failure("No pages were downloaded successfully"), FALSE)
          ELSE IF writeOk THEN LoopEnded(SuccessNoMessage, TRUE)
          ELSE LoopEnded(Failure("write"), FALSE)
    /\ UNCHANGED <<pagesText, loopIndex, tasksCreated, pagesFetched>>
    /\ UNCHANGED <<dlVars, tokVars, fetchVars, uiVars, nameVars, patVars, parseVars, scratchVars, appVars, credVars, viewVars, wrapVars, hdlVars>>

LoopNext ==
    \/ \E mkdirOk \in BOOLEAN : EnterLoop(mkdirOk)
    \/ \E fetched \in 0..PAGE_CONCURRENCY_LIMIT : LoopIteration(fetched)
    \/ \E writeOk \in BOOLEAN : LoopExit(writeOk)

\* no downloadAllPages loop being looked at
LoopIdle ==
    /\ pagesText = <<"1">>
    /\ loopPc = "done"
    /\ loopIndex = Num(0)
    /\ tasksCreated = 0
    /\ pagesFetched = 0
    /\ loopOutcome = LoopNotEnded

\* nothing but the request being looked at is in progress
OtherIdle == ScratchIdle /\ AppIdle /\ CredIdle /\ ViewIdle /\ WrapIdle /\ HdlIdle /\ LoopIdle

(* --------------------------- specifications --------------------------- *)
Init == DlInit /\ TokIdle /\ FetchIdle /\ UiIdle /\ NameIdle /\ PatentIdle /\ ParseIdle /\ OtherIdle
Next == DlNext
Spec == Init /\ [][Next]_vars

InitToken == DlIdle /\ TokIdle /\ FetchIdle /\ UiIdle /\ NameIdle /\ PatentIdle /\ ParseIdle /\ OtherIdle
SpecToken == InitToken /\ [][TokNext]_vars

InitFetch == DlIdle /\ TokIdle /\ FetchInit /\ UiIdle /\ NameIdle /\ PatentIdle /\ ParseIdle /\ OtherIdle
SpecFetch == InitFetch /\ [][FetchNext]_vars

\* timers that are armed fire, and a server that is not silent answers
SpecFetchLive ==
    /\ InitFetch /\ [][FetchNext]_vars
    /\ WF_vars(FetchTimeout)
    /\ WF_vars(RetryFires)
    /\ WF_vars(\E status \in Statuses, hasLocation \in BOOLEAN, bodyOk \in BOOLEAN,
                  connectionKept \in BOOLEAN :
                    Respond(status, hasLocation, bodyOk, connectionKept))
    /\ WF_vars(\E status \in Statuses, bodyOk \in BOOLEAN : RespondRedirect(status, bodyOk))

InitRenderer == DlIdle /\ TokIdle /\ FetchIdle /\ UiInit /\ NameIdle /\ PatentIdle /\ ParseIdle /\ OtherIdle
SpecRenderer == InitRenderer /\ [][UiNext]_vars

InitPatent ==
    /\ DlIdle /\ (TokIdle \/ TokCached) /\ FetchIdle /\ UiIdle /\ NameIdle /\ PatentInit /\ ParseIdle /\ OtherIdle
SpecPatent == InitPatent /\ [][PatentNext]_vars

InitNames == DlIdle /\ TokIdle /\ FetchIdle /\ UiIdle /\ NameInit /\ PatentIdle /\ ParseIdle /\ OtherIdle
SpecNames == InitNames /\ [][NameNext]_vars

InitParse == DlIdle /\ TokIdle /\ FetchIdle /\ UiIdle /\ NameIdle /\ PatentIdle /\ ParseInit /\ OtherIdle
SpecParse == InitParse /\ [][ParseNext]_vars

InitScratch ==
    /\ DlIdle /\ TokIdle /\ FetchIdle /\ UiIdle /\ NameIdle /\ PatentIdle /\ ParseIdle
    /\ ScratchInit /\ AppIdle /\ CredIdle /\ ViewIdle /\ WrapIdle /\ HdlIdle /\ LoopIdle
SpecScratch == InitScratch /\ [][ScratchNext]_vars

InitAppNumber ==
    /\ DlIdle /\ TokIdle /\ FetchIdle /\ UiIdle /\ NameIdle /\ PatentIdle /\ ParseIdle
    /\ ScratchIdle /\ AppInit /\ CredIdle /\ ViewIdle /\ WrapIdle /\ HdlIdle /\ LoopIdle
SpecAppNumber == InitAppNumber /\ [][AppNext]_vars

InitCredentials ==
    /\ DlIdle /\ TokIdle /\ FetchIdle /\ UiIdle /\ NameIdle /\ PatentIdle /\ ParseIdle
    /\ ScratchIdle /\ AppIdle /\ CredInit /\ ViewIdle /\ WrapIdle /\ HdlIdle /\ LoopIdle
SpecCredentials == InitCredentials /\ [][CredNext]_vars

InitDownloadView ==
    /\ DlIdle /\ TokIdle /\ FetchIdle /\ UiInit /\ NameIdle /\ PatentIdle /\ ParseIdle
    /\ ScratchIdle /\ AppIdle /\ CredIdle /\ ViewInit /\ WrapIdle /\ HdlIdle /\ LoopIdle
SpecDownloadView == InitDownloadView /\ [][ViewNext]_vars

InitLoop ==
    /\ DlIdle /\ TokIdle /\ FetchIdle /\ UiIdle /\ NameIdle /\ PatentIdle /\ ParseIdle
    /\ ScratchIdle /\ AppIdle /\ CredIdle /\ ViewIdle /\ WrapIdle /\ HdlIdle /\ LoopInit
\* every iteration awaits Promise.allSettled over tasks that catch their own
\* errors, so a step that is possible is eventually taken
SpecLoop == InitLoop /\ [][LoopNext]_vars /\ WF_vars(LoopNext)

InitHandlers ==
    /\ DlIdle /\ TokIdle /\ FetchIdle /\ UiIdle /\ NameIdle /\ PatentIdle /\ ParseIdle
    /\ ScratchIdle /\ AppIdle /\ CredIdle /\ ViewIdle /\ WrapIdle /\ HdlInit /\ LoopIdle
SpecHandlers == InitHandlers /\ [][HdlNext]_vars

InitFileWrapperView ==
    /\ DlIdle /\ TokIdle /\ FetchIdle /\ UiIdle /\ NameIdle /\ PatentIdle /\ ParseIdle
    /\ ScratchIdle /\ AppIdle /\ CredIdle /\ ViewIdle /\ WrapInit /\ HdlIdle /\ LoopIdle
SpecFileWrapperView == InitFileWrapperView /\ [][WrapNext]_vars

(* ====================================================================== *)
(* Claims about one download request (Spec)                               *)
(* ====================================================================== *)
AllTasksSettled == \A t \in DOMAIN task : task[t] \in {"ok", "fail"}

\* the payloads (task indexes, 1-based) that reached the destination file
PayloadsInOutput ==
    IF mode = "zip" THEN { output.content[k].buffer + 1 : k \in 1..Len(output.content) }
    ELSE IF mode = "merged" THEN { output.content[k] + 1 : k \in 1..Len(output.content) }
    ELSE { output.content[k] : k \in 1..Len(output.content) }

\* C1: at every instant the number of fetch tasks started and not yet settled
\* is at most the ceiling: min(N, 8) for downloadAllPages, 5 for the
\* file-wrapper ZIP and merged downloads.
C1_UnsettledAtMostCeiling ==
    Cardinality(Unsettled) <=
        (IF mode = "pages" THEN Min(numberOfPages, PAGE_CONCURRENCY_LIMIT) ELSE maxConcurrency)

\* a request with more tasks than the ceiling has a full batch in flight
C1_Witness ==
    /\ pc = "fetching"
    /\ N > Ceiling
    /\ Cardinality(Unsettled) = Ceiling

\* C2: whatever the order in which the fetch tasks complete, the merged
\* output holds successfully fetched items only, in ascending original index
\* order (page number, position in the document list).
C2_MergedOutputAscending ==
    (output.written /\ mode \in {"pages", "merged"}) =>
        /\ \A k \in 1..Len(output.content) - 1 : output.content[k] < output.content[k + 1]
        /\ PayloadsInOutput \subseteq Succeeded

\* tasks settled out of submission order and several of them were merged
C2_Witness ==
    /\ output.written
    /\ mode \in {"pages", "merged"}
    /\ settledOutOfOrder
    /\ Len(output.content) >= 3

\* C3: if k of the N fetch tasks fail with 0 < k < N then, on a run without a
\* file-system or parse fault, the output file is written, it contains exactly
\* the N - k successfully fetched payloads and the result has success = true.
C3_PartialFailureKeepsEverySuccess ==
    (pc = "done" /\ fault = {} /\ Failed # {} /\ Succeeded # {}) =>
        /\ output.written
        /\ PayloadsInOutput = Succeeded
        /\ result.success

\* C4: if every one of the N fetch tasks fails, the request ends in a failure
\* result and no output file is written (pages, ZIP and merged).
C4_AllFailedWritesNothing ==
    (pc = "done" /\ N > 0 /\ AllTasksSettled /\ Succeeded = {} /\ fault = {}) =>
        /\ ~output.written
        /\ ~result.success

\* the failed tasks the result names: none of the result objects the handlers
\* build has a field for them
FailedReportedBy(r) == IF "failed" \in DOMAIN r THEN r.failed ELSE {}

\* C8: when k of the N fetch tasks fail with 0 < k < N, the result delivered
\* to the caller identifies which k tasks failed.
C8_ResultNamesFailedTasks ==
    (pc = "done" /\ result.returned /\ AllTasksSettled /\ Failed # {} /\ Succeeded # {}) =>
        FailedReportedBy(result) = Failed

(* ====================================================================== *)
(* Claims about the token cache (SpecToken)                               *)
(* ====================================================================== *)
\* the last finished call began inside the cached validity window
LastCallInWindow ==
    /\ lastTokenCall.cachedAtStart # 0
    /\ lastTokenCall.now < lastTokenCall.expiryAtStart

\* C5: among calls of getEPOAccessTokenWithCache that do not overlap, a call
\* made within the cached validity window issues no token-endpoint request
\* and returns the cached token (two such calls: one request in total), and a
\* call made when nothing is cached or after the expiry issues exactly one.
C5_OneRequestPerValidityWindow ==
    (lastTokenCall.done /\ ~overlapSeen) =>
        IF LastCallInWindow
        THEN /\ lastTokenCall.requests = 0
             /\ lastTokenCall.returned = lastTokenCall.cachedAtStart
        ELSE lastTokenCall.requests = 1

\* a first call, a call after its expiry and a call inside the new window:
\* two requests in all, the last call served from the cache
C5_Witness ==
    /\ lastTokenCall.done
    /\ ~overlapSeen
    /\ LastCallInWindow
    /\ lastTokenCall.returned = 2
    /\ tokenRequests = 2

\* C6: when calls of getEPOAccessTokenWithCache overlap while the cache is
\* empty or expired, at most one token-endpoint request is in flight at any
\* instant.
C6_OneRefreshInFlight == Cardinality(TokenInFlight) <= 1

\* the step in which caller c's token request fails
TokenFailureStep(c) == call[c].pc = "token" /\ call'[c].pc = "returned"

\* C7: when the token-endpoint call fails, the step leaves globalAccessToken
\* and globalTokenExpiry as they were and the download request returns a
\* result with success = false.
C7_FailedRefreshCachesNothing ==
    [][\A c \in Callers :
          TokenFailureStep(c) =>
              /\ globalAccessToken' = globalAccessToken
              /\ globalTokenExpiry' = globalTokenExpiry
              /\ call'[c].result.returned
              /\ ~call'[c].result.success]_vars

\* a refresh failed while an expired token was cached: the token is still there
C7_Witness ==
    \E c \in Callers :
        /\ call[c].pc = "returned"
        /\ "tokenFailure" \in DOMAIN call[c]
        /\ ~call[c].result.success
        /\ globalAccessToken # 0
        /\ ~(clock < globalTokenExpiry)

(* ====================================================================== *)
(* Claims about one fetch (SpecFetch)                                     *)
(* ====================================================================== *)
\* C9: every fetch that receives an HTTP 429 response (page, document and
\* document-list fetch) is retried after a delay: no fetch is rejected
\* because of a 429.
C9_RateLimitIsRetried == rejectedOn # 429

\* C10: every fetch settles: whenever the server never answers an open
\* request (page, document, list or redirected request) a timeout is pending
\* that turns the fetch into a failure.
C10_SilentServerTimesOut == (Awaiting /\ serverSilent) => ENABLED FetchTimeout

\* C11: whenever a document fetch or a document-list fetch is answered with
\* a 301/302 redirect, the request re-issued to the redirect target does not
\* carry the X-API-KEY header.
C11_RedirectDropsApiKey ==
    (fetchKind \in {"document", "list"} /\ fetchState = "redirect") => ~redirectSentKey

(* ====================================================================== *)
(* Claims about the renderer's publication list (SpecRenderer)            *)
(* ====================================================================== *)
\* the grammar of the claim: a supported two-letter jurisdiction, 4 to 12
\* digits, a kind code of 1 to 3 characters that starts with a letter
GrammarAccepts(input) ==
    \E d \in 4..12, k \in 1..3 :
        /\ Len(input) = 2 + d + k
        /\ SubSeq(input, 1, 2) \in validCountryCodes
        /\ \A j \in 3..(2 + d) : input[j] \in Digits
        /\ input[2 + d + 1] \in UpperLetters
        /\ \A j \in (2 + d + 2)..Len(input) : input[j] \in UpperLetters \cup Digits

\* the last addPublication call took its input for a valid publication number
LastAddAccepted == lastAdd.called /\ lastAdd.outcome \in {"added", "duplicate"}

\* C12: addPublication accepts a raw input exactly when, trimmed and
\* uppercased, it is a supported jurisdiction, 4 to 12 digits and a kind code
\* of 1 to 3 characters starting with a letter.
C12_AcceptsExactlyTheGrammar ==
    lastAdd.called => (LastAddAccepted <=> GrammarAccepts(lastAdd.input))

\* C14: normalizing an accepted identifier again yields the same value, and
\* that value is still accepted.
C14_NormalizationIdempotent ==
    LastAddAccepted =>
        /\ NormalizeInput(lastAdd.input) = lastAdd.input
        /\ isValidPublicationNumber(NormalizeInput(lastAdd.input))

\* an input that normalization changed (blanks, lower case) was added
C14_Witness ==
    /\ lastAdd.called
    /\ lastAdd.outcome = "added"
    /\ lastAdd.raw # lastAdd.input
    /\ \E k \in 1..Len(lastAdd.raw) : lastAdd.raw[k] \in LowerLetters

(* ====================================================================== *)
(* Claims about archive entry names (SpecNames)                           *)
(* ====================================================================== *)
\* [A-Za-z0-9._-]
AllowedEntryChars == UpperLetters \cup LowerLetters \cup Digits \cup { ".", "_", "-" }

\* C20: every entry name placed in the archive contains only characters from
\* [A-Za-z0-9._-], for every document code and identifier.
C20_EntryNameIsSafe ==
    entryName.named =>
        \A k \in 1..Len(entryName.fileName) : entryName.fileName[k] \in AllowedEntryChars

(* ====================================================================== *)
(* Claims about one 'download-patent' call (SpecPatent)                   *)
(* ====================================================================== *)
\* C13: an invalid identifier (unsupported jurisdiction, non-numeric body,
\* missing kind code) that arrives at the download-patent handler causes no
\* network call: no token, document-index or page request is issued for it.
C13_InvalidIdentifierSendsNothing ==
    ~GrammarAccepts(NormalizeInput(publicationNumber)) => requests = <<>>

(* ====================================================================== *)
(* Further claims about one download request (Spec)                       *)
(* ====================================================================== *)
\* C15: the scratch directory created by downloadAllPages is removed by the
\* time downloadAllPages returns or throws, on every outcome; only a failure
\* of the removal itself may leave it behind.
C15_ScratchDirectoryRemoved ==
    (mode = "pages" /\ pc = "done" /\ "rm" \notin fault) => ~tempDir

\* C16: the handler resolves with one structured result that carries a
\* boolean success and a message, plus filePath when success is true; fetch
\* failures alone make success false only when no item succeeded.
C16_StructuredResult ==
    (pc = "done" /\ result.returned) =>
        /\ result.success \in BOOLEAN
        /\ "message" \in DOMAIN result
        /\ result.success => "filePath" \in DOMAIN result
        /\ (fault = {} /\ Succeeded # {}) => result.success

\* the events sent for settled tasks: the initial event has completed = 0
IsTaskEvent(e) == e.status = "downloading" /\ e.completed > 0
TaskEvents == SelectSeq(progress, IsTaskEvent)
IsAssemblyEvent(e) == e.status \in {"creating-zip", "merging"}
IsTerminalEvent(e) == e.status \in {"completed", "failed"}

\* C17: every fetch task that settles causes exactly one progress event whose
\* completed count is one more than the previous event's, and the event is
\* emitted as soon as the task settles, before the tasks of its batch that
\* are still running settle.
C17_EventAsSoonAsSettled ==
    reporter = "live" =>
        /\ \A k \in 1..Len(TaskEvents) : TaskEvents[k].completed = k
        /\ Len(TaskEvents) <= Cardinality(Succeeded \cup Failed)
        /\ (pc = "fetching" /\ Unsettled # {}) =>
               Len(TaskEvents) = Cardinality(Succeeded \cup Failed)

\* C18: the progress events of a request follow the phase order: every
\* fetching-phase event precedes the assembly-phase event, and the stream
\* ends with exactly one terminal completed or failed event sent by the core.
C18_PhasesEndWithTerminalEvent ==
    (pc = "done" /\ reporter = "live") =>
        /\ \A j, k \in 1..Len(progress) :
              (IsAssemblyEvent(progress[j]) /\ progress[k].status = "downloading") => k < j
        /\ progress # <<>>
        /\ IsTerminalEvent(progress[Len(progress)])
        /\ Len(SelectSeq(progress, IsTerminalEvent)) = 1

\* what a file-wrapper download without a reporter ends with when the
\* destination can be written: every fetch started, the output written from
\* the successful payloads, success returned
EndsAsWithoutReporter ==
    /\ \A t \in DOMAIN task : task[t] # "pending"
    /\ output.written
    /\ PayloadsInOutput \subseteq Succeeded
    /\ result = SuccessNoMessage

\* C19: the reporter is a passive observer: a file-wrapper download with a
\* reporter attached issues the same fetches, writes the same output and
\* returns the same value as the download without one.
C19_ReporterIsPassive ==
    (pc = "done" /\ mode # "pages" /\ "write" \notin fault) => EndsAsWithoutReporter

\* C21: after a file-wrapper ZIP download the archive holds exactly one entry
\* per successfully fetched document: no successful payload overwrites
\* another.
C21_OneEntryPerSuccessfulFetch ==
    (pc = "done" /\ mode = "zip" /\ output.written) =>
        Len(output.content) = Cardinality(Succeeded)

\* the batch (0-based) the t-th task belongs to
BatchOf(t) == (t - 1) \div Ceiling

\* C22: batches run strictly one after another: no fetch task of a later
\* batch is started before every task of the earlier batches has settled.
C22_BatchesRunInSequence ==
    \A t, u \in DOMAIN task :
        (BatchOf(u) < BatchOf(t) /\ task[u] \notin {"ok", "fail"}) => task[t] = "pending"

\* the second batch is running after a first batch in which a task failed
C22_Witness ==
    /\ pc = "fetching"
    /\ i > 0
    /\ \E t \in BatchTasks(i) : task[t] = "running"
    /\ \A u \in 1..i : task[u] \in {"ok", "fail"}
    /\ \E u \in 1..i : task[u] = "fail"

\* C23: a failing fetch task never aborts the scheduler: its failure is kept
\* as data in its own result, and every sibling task and every later batch is
\* still started and awaited; only a setup failure ends the loop early.
C23_TaskFailureDoesNotAbort ==
    (pc \in {"assemble", "done"} /\ fault \cap {"mkdir", "sender"} = {}) =>
        /\ AllTasksSettled
        /\ mode = "pages" =>
              \A t \in Failed : \E k \in 1..Len(downloadResults) :
                  /\ downloadResults[k].pageNum = t
                  /\ ~downloadResults[k].success

\* the first task failed, and the tasks of a later batch were run all the same
C23_Witness ==
    /\ pc = "assemble"
    /\ N > Ceiling
    /\ task[1] = "fail"
    /\ task[N] = "ok"
    /\ AllTasksSettled

\* C24: after downloadAllPages has run all batches for N pages,
\* downloadResults holds exactly N results, and the result at position k
\* (1-based) is the outcome of page k, whether it succeeded or failed.
C24_OneResultPerPageInOrder ==
    (mode = "pages" /\ pc \in {"assemble", "done"} /\ "mkdir" \notin fault) =>
        /\ Len(downloadResults) = N
        /\ \A k \in 1..N :
              /\ downloadResults[k].pageNum = k
              /\ downloadResults[k].success = (task[k] = "ok")

\* more pages than one batch takes, with a failed page among them
C24_Witness ==
    /\ mode = "pages"
    /\ pc = "assemble"
    /\ N > PAGE_CONCURRENCY_LIMIT
    /\ Failed # {}
    /\ Succeeded # {}
    /\ Len(downloadResults) = N

C26_RateLimitRetryEnds ==
    (fetchKind = "list") => <>(FetchSettled \/ serverSilent)

\* C27: parseDocumentInstances skips every tag that lacks desc,
\* number-of-pages or link and goes on parsing; it throws the 'no instance
\* found' error exactly when no tag has all three; otherwise it returns the
\* first instance described as FullDocument if there is one, else the first
\* complete instance in document order.
WellFormedTags ==
    { k \in 1..Len(xmlData) :
        xmlData[k].desc.found /\ xmlData[k].pages.found /\ xmlData[k].link.found }
FullDocumentTags == { k \in WellFormedTags : xmlData[k].desc.value = "FullDocument" }
FirstOf(S) == CHOOSE k \in S : \A h \in S : k <= h
C27_SelectsPreferredInstance ==
    documentInfo # NotParsed =>
        IF WellFormedTags = {}
        THEN documentInfo.state = "thrown"
        ELSE LET k == FirstOf(IF FullDocumentTags # {} THEN FullDocumentTags
                              ELSE WellFormedTags)
             IN  /\ documentInfo.state = "returned"
                 /\ documentInfo.value.desc = xmlData[k].desc.value
                 /\ documentInfo.value.link = xmlData[k].link.value
\* a malformed tag, then a complete Drawing, then the FullDocument that is returned
C27_Witness ==
    /\ documentInfo.state = "returned"
    /\ Len(xmlData) = 3
    /\ WellFormedTags = {2, 3}
    /\ FullDocumentTags = {3}
    /\ xmlData[2].link.value # xmlData[3].link.value
    /\ documentInfo.value.link = xmlData[3].link.value

\* C28: for every identifier the validator isValidPublicationNumber accepts,
\* the body posted to the document-index endpoint is in the dotted form
\* CC.NUMBER.KIND.
IsDotted(body) ==
    \E k \in 5..(Len(body) - 1) :
        /\ body[3] = "." /\ body[k] = "."
        /\ \A j \in (1..Len(body)) \ {3, k} : body[j] # "."
        /\ \A j \in 4..(k - 1) : body[j] \in Digits
C28_ValidIdentifierPostedDotted ==
    isValidPublicationNumber(publicationNumber) =>
        \A k \in 1..Len(requests) :
            requests[k].to = "index" => IsDotted(requests[k].body)

\* C29: a token that getEPOAccessTokenWithCache returns from the cache is
\* younger than the 14-minute window: less than 14 minutes have passed since
\* the token-endpoint request that produced it began.
ReturnedFromCache ==
    lastTokenCall.done /\ lastTokenCall.requests = 0 /\ lastTokenCall.returned # 0
C29_CachedTokenYoungerThanWindow ==
    ReturnedFromCache =>
        lastTokenCall.now - tokenStartedAt[lastTokenCall.returned] < TOKEN_CACHE_MINUTES
\* a token asked for at minute 0 while another request was under way, handed
\* out from the cache at minute 7
C29_Witness ==
    /\ ReturnedFromCache
    /\ tokenStartedAt[lastTokenCall.returned] = 0
    /\ lastTokenCall.now = TickMinutes
    /\ globalTokenExpiry = TOKEN_CACHE_MINUTES
    /\ overlapSeen

\* C30: within the fetching phase of a file-wrapper download the completed
\* counts of successive progress events are strictly increasing, lie between
\* 0 and total, start at 0, and have reached total = N once the last task
\* has settled, however many tasks failed.
IsDownloading(progressEvent) == progressEvent.status = "downloading"
FetchingEvents == SelectSeq(progress, IsDownloading)
FetchingPhaseOver == pc = "assemble" \/ (pc = "done" /\ "sender" \notin fault)
C30_FetchingProgressMonotonic ==
    (mode # "pages" /\ reporter # "none") =>
        /\ \A k \in 1..Len(FetchingEvents) :
              /\ 0 <= FetchingEvents[k].completed
              /\ FetchingEvents[k].completed <= FetchingEvents[k].total
              /\ FetchingEvents[k].total = N
        /\ \A k \in 1..(Len(FetchingEvents) - 1) :
              FetchingEvents[k].completed < FetchingEvents[k + 1].completed
        /\ FetchingEvents # <<>> => FetchingEvents[1].completed = 0
        /\ pc \in {"fetching", "assemble"} => FetchingEvents # <<>>
        /\ FetchingPhaseOver => FetchingEvents[Len(FetchingEvents)].completed = N
\* two batches, some tasks failed, one event per document after the first
C30_Witness ==
    /\ mode = "zip" /\ reporter = "live" /\ pc = "done"
    /\ N = MaxDocs
    /\ Failed # {} /\ Succeeded # {}
    /\ Len(FetchingEvents) = N + 1
    /\ FetchingEvents[Len(FetchingEvents)].completed = N

\* C31: in the merging downloads a fetched payload that cannot be parsed or
\* copied is skipped and the merge goes on: every other successful payload is
\* appended, in index order, and the output is written.
SucceededIndexes == IF mode = "pages" THEN Succeeded ELSE { t - 1 : t \in Succeeded }
C31_UnparsablePayloadIsSkipped ==
    (pc = "done" /\ mode \in {"pages", "merged"} /\ skippedInMerge # {}
       /\ "write" \notin fault) =>
        /\ output.written
        /\ result.returned /\ result.success
        /\ { output.content[k] : k \in 1..Len(output.content) }
              = SucceededIndexes \ skippedInMerge
        /\ \A k \in 1..(Len(output.content) - 1) :
              output.content[k] < output.content[k + 1]
\* a skipped payload between two payloads that were merged
C31_Witness ==
    /\ pc = "done" /\ mode = "merged" /\ output.written
    /\ \E a, b, c \in SucceededIndexes :
          /\ a < b /\ b < c
          /\ b \in skippedInMerge
          /\ \E k \in 1..(Len(output.content) - 1) :
                output.content[k] = a /\ output.content[k + 1] = c

\* C32: two downloadAllPages runs that overlap in time and write to the same
\* directory never use the same temp directory.
C32_TempDirPerRequest ==
    \A r1, r2 \in Runs :
        (r1 # r2 /\ Active(r1) /\ Active(r2)) => run[r1].tempDir # run[r2].tempDir

\* C33: the application number in the path of the document-list request
\* always consists of exactly 8 digits.
C33_ApplicationNumberHasEightDigits ==
    listRequest.sent =>
        /\ Len(listRequest.applicationNumber) = 8
        /\ \A k \in 1..Len(listRequest.applicationNumber) :
              listRequest.applicationNumber[k] \in Digits

\* C34: a token returned by getEPOAccessTokenWithCache(clientKey,
\* clientSecret) was obtained with the credentials passed in that call.
C34_TokenMatchesCredentials ==
    handedOut.returned => issuedFor[handedOut.token] = handedOut.keys

\* C35: at most one downloadPublications run is active at a time: while a
\* run is in progress the download button stays disabled, whatever the user
\* adds, clears or removes.
C35_OneRunAtATime ==
    /\ Len(runs) <= 1
    /\ Len(runs) > 0 => downloadButtonDisabled

\* C36: after removePublication(p), p is no longer part of the download set
\* and the displayed count equals the number of entries that will be
\* downloaded.
C36_RemovedPublicationLeavesList ==
    [][\A pubNumber \in { NormalizeInput(v) : v \in ViewInputs } :
          removePublication(pubNumber) =>
              /\ \A k \in 1..Len(publicationsList') : publicationsList'[k] # pubNumber
              /\ publicationsCount' = Len(publicationsList')]_vars

\* C38: after any sequence of addPublication and Clear All, publicationsList
\* holds only trimmed, uppercased identifiers that pass
\* isValidPublicationNumber, has no duplicates and keeps the order of
\* addition; a rejected add leaves the list unchanged.
ListWellFormed ==
    /\ \A k \in 1..Len(publicationsList) :
          /\ NormalizeInput(publicationsList[k]) = publicationsList[k]
          /\ isValidPublicationNumber(publicationsList[k])
    /\ \A j, k \in 1..Len(publicationsList) :
          publicationsList[j] = publicationsList[k] => j = k
ListStep ==
    /\ \/ publicationsList' = publicationsList
       \/ publicationsList' = <<>>
       \/ /\ Len(publicationsList') = Len(publicationsList) + 1
          /\ SubSeq(publicationsList', 1, Len(publicationsList)) = publicationsList
          /\ lastAdd'.outcome = "added"
          /\ publicationsList'[Len(publicationsList')] = lastAdd'.input
    /\ \A value \in TypedInputs :
          (addPublication(value) /\ lastAdd'.outcome # "added") =>
              publicationsList' = publicationsList
C38_ListStaysWellFormed == []ListWellFormed /\ [][ListStep]_vars
\* an input that needed trimming or uppercasing was added and Clear All has
\* emptied the list since
C38_Witness ==
    /\ publicationsList = <<>>
    /\ lastAdd.called /\ lastAdd.outcome = "added"
    /\ lastAdd.raw # lastAdd.input

\* C37: a listed document without a PDF download option (downloadUrl
\* undefined) is never submitted: the documents passed to
\* download-file-wrapper-documents all have a downloadUrl.
C37_OnlyDownloadableSubmitted ==
    wrapperRequest.sent =>
        \A k \in 1..Len(wrapperRequest.documents) :
            wrapperRequest.documents[k].downloadUrl # Undefined

\* C39: when a precondition of a download is not met (download directory or
\* Espacenet key/secret missing for download-patent; USPTO key missing or
\* shorter than 10 characters for fetch-file-wrapper-documents; USPTO key or
\* download directory missing for download-file-wrapper-documents), the
\* handler returns success = false before any network request is issued and
\* without changing the token cache.
PreconditionNotMet(handler, cfg) ==
    LET noDirectory == ~cfg.settingsLoaded \/ ~cfg.downloadDirectory
        noEspacenetKeys == ~cfg.keysLoaded \/ ~cfg.espacenetConsumerKey
                              \/ ~cfg.espacenetSecretKey
        noUsptoKey == ~cfg.keysLoaded \/ cfg.usptoApiKey = 0
    IN  CASE handler = "download-patent" -> noDirectory \/ noEspacenetKeys
          [] handler = "fetch-file-wrapper-documents" ->
                noUsptoKey \/ cfg.usptoApiKey < API_KEY_MIN_LENGTH
          [] handler = "download-file-wrapper-documents" -> noUsptoKey \/ noDirectory
C39_UnmetPreconditionSendsNothing ==
    [][(callsMade' # callsMade /\ PreconditionNotMet(ipc'.handler, storedConfig)) =>
          /\ ipc'.pc = "returned"
          /\ ipcResult'.returned /\ ~ipcResult'.success
          /\ network' = network
          /\ tokenRequests' = tokenRequests
          /\ globalAccessToken' = globalAccessToken
          /\ globalTokenExpiry' = globalTokenExpiry]_vars
\* a handler has returned at an unmet precondition while the cache holds the
\* token of an earlier download
C39_Witness ==
    /\ ipc.pc = "returned"
    /\ PreconditionNotMet(ipc.handler, storedConfig)
    /\ ipcResult.returned /\ ~ipcResult.success
    /\ globalAccessToken # 0
    /\ network # <<>>

\* C40: the batch loop of downloadAllPages terminates for every page count
\* the locator reports, 0, negative and NaN included: the loop index
\* strictly increases on every iteration, and when the page count yields no
\* fetch task the request fails with 'No pages were downloaded
\* successfully' instead of looping or writing an output.
IndexIncreases ==
    loopIndex' # loopIndex =>
        ~loopIndex.nan /\ ~loopIndex'.nan /\ loopIndex'.value > loopIndex.value
NoTaskMeansFailure ==
    /\ tasksCreated = 0 => ~loopOutcome.written
    /\ (loopPc = "done" /\ tasksCreated = 0 /\ loopOutcome.result.message # "mkdir") =>
          loopOutcome.result = Failure("No pages were downloaded successfully")
====
